---- MODULE Spec2Model ----
(***************************************************************************)
(* Crash-game backend (aviator): the round engine (Manager), its bet and   *)
(* cashout handlers, the auto-cashout goroutines, the provably-fair        *)
(* primitives, the balance ledger shared with the instant engines (Mines,  *)
(* Plinko, Dice), the hub's broadcast intake and its fan-out to the        *)
(* WebSocket sessions.                                                     *)
(*                                                                         *)
(* Units: money is in hundredths (cents); multipliers are in hundredths    *)
(* (1.00x = 100); bet amounts are whole units, as the requests carry them. *)
(* Elapsed time is counted in ticker periods of 100 ms.                    *)
(***************************************************************************)
EXTENDS Integers, Sequences, FiniteSets, TLC

\* ---------------------------------------------------------------- bounds
MaxRounds == 2          \* rounds the engine may create
MaxBetReqs == 2         \* PlaceBet calls
MaxCashoutReqs == 1     \* manual Cashout calls
MaxRetryCashoutReqs == 2 \* manual Cashout calls when the store may fail
MaxMinesCalls == 3      \* click / cashout calls on the Mines engine
MaxInstant == 1         \* PlaceBet calls on the instant engines
MaxInstantFaults == 2   \* PlaceBet calls when the payout credit may fail
MaxRepeatCalls == 3     \* repeated calls of a pure function on one input
MaxBroadcasts == 102    \* Hub.Broadcast calls
MaxSessionBroadcasts == 2 \* Hub.Broadcast calls while sessions are connected
MaxDirectWrites == 1    \* writes of the WebSocket handlers themselves
QueueCap == 1           \* modelled capacity of betChannel / cashoutChannel

\* ------------------------------------------------------ program constants
MIN_BET_AMOUNT == 1
MAX_BET_AMOUNT == 10000
MIN_MULTIPLIER == 100
MAX_MULTIPLIER == 100000000
HOUSE_EDGE == 1         \* percent
MINES_GRID_SIZE == 25
MINES_MIN_COUNT == 1
MINES_MAX_COUNT == 24
MinesLoopCap == 100     \* i < 100 in generateMinePositions
MinesHouseEdge == 97    \* houseEdge := 0.97 in calculatePayout, in percent
HubBroadcastCap == 100  \* make(chan interface{}, 100) in NewHub

\* ------------------------------------------------------------ input sets
Users == {"u1", "u2"}               \* users with a balance key
Bettors == {"u1"}                   \* users who place bets
Seeds == {1, 2}                     \* values GenerateSeed may return
\* <<amount, auto_cashout>> of a bet request: below the minimum; the minimum
\* without and with an auto-cashout target of 1.06x.
BetInputs == {<<0, 0>>, <<1, 0>>, <<1, 106>>}
InitialBalance == 150               \* 1.50 units, pre-seeded
InstantKinds == {"mines", "plinko", "dice"}
Sessions == {"s1", "s2"}            \* WebSocket connections

VARIABLES
    pc,             \* position of the engine goroutine (gameLoop/runRound)
    nonce,          \* Manager.nonce
    round,          \* Manager.currentRound (NoRound = nil)
    rwlock,         \* Manager.stateMutex: "free" or "W" (engine holds Lock)
    elapsed,        \* ticker periods since the round went RUNNING
    activeBets,     \* runRound's local snapshot from loadActiveBets
    eng,            \* locals of the handler the engine is executing
    stopped,        \* stopChan closed
    balance,        \* store: crash:balance:<user>
    betTable,       \* store: crash:bets:active:<round_id>
    roundStore,     \* store: crash:round:<round_id>
    sent,           \* events handed to Hub.Broadcast
    betReqs,        \* PlaceBet calls: request, reply channel, caller
    betChannel,     \* Manager.betChannel
    cashReqs,       \* Cashout calls: request, reply channel, caller
    cashoutChannel, \* Manager.cashoutChannel
    autos,          \* goroutines spawned by processAutoCashouts
    credits,        \* history: cashout credits applied to balances
    inst,           \* PlaceBet calls running on the instant engines
    mines,          \* store: mines:game:<game_id>, the stored JSON documents
    minesCalls,     \* click / cashout calls running on the Mines engine
    fn,             \* a direct call of a pure function: arguments, results
    hub,            \* Hub: the broadcast channel, whether Run is running
    ws              \* Hub.clients, the send goroutines, the WebSocket handlers

vars == <<pc, nonce, round, rwlock, elapsed, activeBets, eng, stopped,
          balance, betTable, roundStore, sent, betReqs, betChannel,
          cashReqs, cashoutChannel, autos, credits, inst, mines, minesCalls,
          fn, hub, ws>>

RoundIds == 1..MaxRounds
NoRound == [status |-> "NONE"]
EmptyTable == [b \in {} |-> 0]
NoLocals == [req |-> 0]
None == [success |-> FALSE, message |-> "none"]

Put(t, k, v) == [x \in (DOMAIN t) \cup {k} |-> IF x = k THEN v ELSE t[x]]

\* ------------------------------------------------------- provably fair
\* Width kept of the digest prefix (the code keeps 2^64; 2^24 keeps every
\* product below 2^31).
HashBits == 2 ^ 24

\* HMAC-SHA256(serverSeed, clientSeed ":" nonce), first bytes as an integer.
\* The digest is abstracted by a fixed mixing function of the three inputs.
HmacPrefix(serverSeed, clientSeed, n) ==
    (serverSeed * 848378 + clientSeed * 16254418 + n * 287267) % HashBits

\* float64(i.Uint64()): the topmost prefixes round up to 2^w, so that rFloat
\* is 1.0 (w = 64: the prefixes from 2^64 - 2^10 on; here the last one).
floatOfPrefix(u) == IF u >= HashBits - 1 THEN HashBits ELSE u

\* int(crashValue*100) when crashValue is +Inf (rFloat = 1.0): the conversion
\* of an out-of-range float is implementation-dependent; the build decides.
IntOfInfOutcomes == {-(2 ^ 30), 0, 2 ^ 30}

\* HashAndMapToMultiplier without its upper clamp (mutant).
MapToMultiplierUnclamped(u, intOfInf) ==
    LET f == floatOfPrefix(u)
        crashValue == IF f = HashBits THEN intOfInf
                      ELSE (99 * HashBits) \div (HashBits - f)
    IN  IF f * 100 < HOUSE_EDGE * HashBits THEN MIN_MULTIPLIER
        ELSE IF crashValue < MIN_MULTIPLIER THEN MIN_MULTIPLIER
        ELSE crashValue

\* HashAndMapToMultiplier from the digest prefix on: rFloat = f / 2^w,
\* crashValue is 99 / (100 - 100 rFloat) truncated to hundredths.
MapToMultiplier(u, intOfInf) ==
    LET f == floatOfPrefix(u)
        crashValue == IF f = HashBits THEN intOfInf
                      ELSE (99 * HashBits) \div (HashBits - f)
    IN  IF f * 100 < HOUSE_EDGE * HashBits THEN MIN_MULTIPLIER
        ELSE IF crashValue < MIN_MULTIPLIER THEN MIN_MULTIPLIER
        ELSE IF crashValue > MAX_MULTIPLIER THEN MAX_MULTIPLIER
        ELSE crashValue

HashAndMapToMultiplier(serverSeed, clientSeed, n) ==
    MapToMultiplier(HmacPrefix(serverSeed, clientSeed, n),
                    CHOOSE k \in IntOfInfOutcomes : TRUE)

\* |calculated - claimed| in thousandths; claimed is given in thousandths.
VerifyDiff(u, intOfInf, claimed) ==
    LET d == MapToMultiplier(u, intOfInf) * 10 - claimed
    IN  IF d < 0 THEN -d ELSE d

\* VerifyRound with a tolerance of 0.1 (mutant).
VerifyRoundLoose(u, intOfInf, claimed) ==
    {VerifyDiff(u, intOfInf, claimed) < 100}

\* VerifyRound from the digest prefix on: diff < 0.01. A difference of
\* exactly 0.01 falls on either side, as the float subtraction rounds.
VerifyRound(u, intOfInf, claimed) ==
    IF VerifyDiff(u, intOfInf, claimed) = 10 THEN BOOLEAN
    ELSE {VerifyDiff(u, intOfInf, claimed) < 10}

\* SHA-256 of the seed, abstracted by a fixed injective mixing function.
HashCommitment(seed) == (seed * 7919 + 104729) % 1000003

\* 1.0 + elapsed/1.5 + 0.005*elapsed^2, truncated to hundredths; t in 100 ms.
calculateMultiplier(t) == (60000 + 4000 * t + 3 * t * t) \div 600

\* ToJSON as it would be without the "-" tag on ServerSeed.
ToJSONWithSeed(r) ==
    [round_id |-> r.id, hash_commitment |-> r.commitment,
     server_seed |-> r.serverSeed,
     client_seed |-> r.clientSeed, current_multiplier |-> r.current,
     status |-> r.status, nonce |-> r.nonce]

\* JSON form of a RoundState: ServerSeed and CrashMultiplier are tagged "-".
ToJSON(r) ==
    [round_id |-> r.id, hash_commitment |-> r.commitment,
     client_seed |-> r.clientSeed, current_multiplier |-> r.current,
     status |-> r.status, nonce |-> r.nonce]

\* Manager.GetCurrentRound: a copy of the round, taken under RLock.
GetCurrentRound == round

RLockFree == rwlock = "free"

\* ------------------------------------------------------------------ Init
\* The servers after construction, before any request.
InitServers ==
    /\ pc = "idle"
    /\ nonce = 0
    /\ round = NoRound
    /\ rwlock = "free"
    /\ elapsed = 0
    /\ activeBets = EmptyTable
    /\ eng = NoLocals
    /\ stopped = FALSE
    /\ balance = [u \in Users |-> InitialBalance]
    /\ betTable = [r \in RoundIds |-> EmptyTable]
    /\ roundStore = EmptyTable
    /\ sent = {}
    /\ betReqs = EmptyTable
    /\ betChannel = <<>>
    /\ cashReqs = EmptyTable
    /\ cashoutChannel = <<>>
    /\ autos = {}
    /\ credits = {}
    /\ inst = EmptyTable
    /\ mines = EmptyTable
    /\ minesCalls = EmptyTable
    /\ hub = [broadcast |-> <<>>, running |-> FALSE, calls |-> 0,
              last |-> "none"]
    /\ ws = [clients |-> {}, sends |-> {},
             handler |-> [c \in Sessions |-> "new"],
             written |-> [c \in Sessions |-> <<>>],
             failed |-> {}, direct |-> 0]

NoCall == [name |-> "none"]

Init == InitServers /\ fn = NoCall

\* Hub.Broadcast: the event is handed to the hub.
Broadcast(e) == sent' = sent \cup {e}

\* --------------------------------------------------------------- runRound
\* gameLoop calls runRound: new seeds, commitment, crash point, round record,
\* store write and the round_start event.
NewRoundStateCommitsClientSeed(n, serverSeed, clientSeed) ==
    [id |-> n, serverSeed |-> serverSeed,
     commitment |-> HashCommitment(clientSeed),
     clientSeed |-> clientSeed,
     crash |-> HashAndMapToMultiplier(serverSeed, clientSeed, n),
     current |-> MIN_MULTIPLIER, status |-> "BETTING", nonce |-> n]

NewRoundState(n, serverSeed, clientSeed) ==
    [id |-> n, serverSeed |-> serverSeed,
     commitment |-> HashCommitment(serverSeed),
     clientSeed |-> clientSeed,
     crash |-> HashAndMapToMultiplier(serverSeed, clientSeed, n),
     current |-> MIN_MULTIPLIER, status |-> "BETTING", nonce |-> n]

RoundStartEvent(r) ==
    [type |-> "round_start", status |-> "BETTING", round_id |-> r.id,
     commitment |-> r.commitment, time_left |-> 5]

\* runRound up to its betting loop, entered from position at.
RunRoundFrom(at, serverSeed, clientSeed) ==
    /\ pc = at
    /\ nonce < MaxRounds
    /\ RLockFree
    /\ LET r == NewRoundState(nonce + 1, serverSeed, clientSeed) IN
        /\ nonce' = nonce + 1
        /\ round' = r
        /\ roundStore' = Put(roundStore, r.id, ToJSON(r))
        /\ Broadcast(RoundStartEvent(r))
    /\ pc' = "betting"
    /\ elapsed' = 0
    /\ activeBets' = EmptyTable
    /\ UNCHANGED <<rwlock, eng, stopped, balance, betTable, betReqs,
                   betChannel, cashReqs, cashoutChannel, autos, credits, inst, mines, minesCalls,
                   fn, hub, ws>>

\* gameLoop's select taking its default branch, and the call of runRound, as
\* one step.
StartRoundWith(serverSeed, clientSeed) ==
    /\ ~stopped
    /\ RunRoundFrom("idle", serverSeed, clientSeed)

\* gameLoop without its stop case: runRound is called whatever stopChan
\* holds (mutant).
GameLoopDefaultIgnoresStop ==
    /\ pc = "idle"
    /\ nonce < MaxRounds
    /\ pc' = "run_round"
    /\ UNCHANGED <<nonce, round, rwlock, elapsed, activeBets, eng, stopped,
                   balance, betTable, roundStore, sent, betReqs, betChannel,
                   cashReqs, cashoutChannel, autos, credits, inst, mines,
                   minesCalls, fn, hub, ws>>

\* gameLoop's select finds stopChan open and takes the default branch: the
\* call of runRound is next.
GameLoopDefault ==
    /\ pc = "idle"
    /\ ~stopped
    /\ nonce < MaxRounds
    /\ pc' = "run_round"
    /\ UNCHANGED <<nonce, round, rwlock, elapsed, activeBets, eng, stopped,
                   balance, betTable, roundStore, sent, betReqs, betChannel,
                   cashReqs, cashoutChannel, autos, credits, inst, mines,
                   minesCalls, fn, hub, ws>>

\* runRound, called by gameLoop after its select.
RunRound ==
    \E serverSeed \in Seeds : \E clientSeed \in Seeds \ {serverSeed} :
        RunRoundFrom("run_round", serverSeed, clientSeed)

\* runRound with the two seeds GenerateSeed draws.
StartRound ==
    \E serverSeed \in Seeds : \E clientSeed \in Seeds \ {serverSeed} :
        StartRoundWith(serverSeed, clientSeed)

\* gameLoop / runRound selects observe the closed stop channel.
EngineStop ==
    /\ stopped
    /\ pc \in {"idle", "betting", "running"}
    /\ pc' = "stopped"
    /\ UNCHANGED <<nonce, round, rwlock, elapsed, activeBets, eng, stopped,
                   balance, betTable, roundStore, sent, betReqs, betChannel,
                   cashReqs, cashoutChannel, autos, credits, inst, mines, minesCalls,
                   fn, hub, ws>>

\* Manager.Stop
Stop ==
    /\ ~stopped
    /\ stopped' = TRUE
    /\ UNCHANGED <<pc, nonce, round, rwlock, elapsed, activeBets, eng,
                   balance, betTable, roundStore, sent, betReqs, betChannel,
                   cashReqs, cashoutChannel, autos, credits, inst, mines, minesCalls,
                   fn, hub, ws>>

\* The betting timer fires: status RUNNING, round_running, loadActiveBets.
BettingTimer ==
    /\ pc = "betting"
    /\ RLockFree
    /\ round' = [round EXCEPT !.status = "RUNNING"]
    /\ Broadcast([type |-> "round_running", status |-> "RUNNING",
                  round_id |-> round.id])
    /\ activeBets' = betTable[round.id]
    /\ elapsed' = 0
    /\ pc' = "running"
    /\ UNCHANGED <<nonce, rwlock, eng, stopped, balance, betTable, roundStore,
                   betReqs, betChannel, cashReqs, cashoutChannel, autos,
                   credits, inst, mines, minesCalls, fn, hub, ws>>

\* ------------------------------------------------------------- processBet
BetReply(success, message, betID, bal) ==
    [success |-> success, message |-> message, bet_id |-> betID,
     balance |-> bal]

\* The amount validation with its lower bound lost.
AmountAboveMaximum(amount) == amount > MAX_BET_AMOUNT

\* Amount validation of processBet.
AmountOutOfBounds(amount) ==
    amount < MIN_BET_AMOUNT \/ amount > MAX_BET_AMOUNT

\* Phase check of processBet, under RLock.
BettingClosed == round = NoRound \/ round.status # "BETTING"

\* The balance check comparing cents against whole units.
InsufficientBalanceUnitMismatch(bal, amount) == bal < amount

\* Balance check of processBet (store Get, then compare); amount in units.
InsufficientBalance(bal, amount) == bal < amount * 100

\* The ActiveBet record processBet writes to the bet table.
NewActiveBet(id, req) ==
    [bet_id |-> id, user_id |-> req.user, amount |-> req.amount,
     auto_cashout |-> req.auto, cashed_out |-> FALSE]

\* What PlaceBet returns to its caller (None while the caller still waits).
BetReturned(req) ==
    IF req.timedOut THEN BetReply(FALSE, "Bet timeout", 0, 0) ELSE req.reply

\* Manager.PlaceBet: non-blocking send on betChannel, else "Bet queue full".
\* PlaceBet with a send that enqueues whatever the queue holds (mutant).
PlaceBetAlwaysEnqueues(user, amount, auto) ==
    LET id == Cardinality(DOMAIN betReqs) + 1
        req == [user |-> user, amount |-> amount, auto |-> auto,
                whileRunning |-> (round.status = "RUNNING"),
                reply |-> None, timedOut |-> FALSE]
    IN
    /\ id <= MaxBetReqs
    /\ betChannel' = Append(betChannel, id)
    /\ betReqs' = Put(betReqs, id, req)
    /\ UNCHANGED <<pc, nonce, round, rwlock, elapsed, activeBets, eng, stopped,
                   balance, betTable, roundStore, sent, cashReqs,
                   cashoutChannel, autos, credits, inst, mines, minesCalls,
                   fn, hub, ws>>

PlaceBet(user, amount, auto) ==
    LET id == Cardinality(DOMAIN betReqs) + 1
        req == [user |-> user, amount |-> amount, auto |-> auto,
                whileRunning |-> (round.status = "RUNNING"),
                reply |-> None, timedOut |-> FALSE]
    IN
    /\ id <= MaxBetReqs
    /\ IF Len(betChannel) < QueueCap
       THEN /\ betChannel' = Append(betChannel, id)
            /\ betReqs' = Put(betReqs, id, req)
       ELSE /\ betChannel' = betChannel
            /\ betReqs' = Put(betReqs, id,
                   [req EXCEPT !.reply = BetReply(FALSE, "Bet queue full", 0, 0)])
    /\ UNCHANGED <<pc, nonce, round, rwlock, elapsed, activeBets, eng, stopped,
                   balance, betTable, roundStore, sent, cashReqs,
                   cashoutChannel, autos, credits, inst, mines, minesCalls,
                   fn, hub, ws>>

\* The PlaceBet caller's 5 s timer fires before a reply is on its channel.
BetCallerTimeout(id) ==
    /\ id \in DOMAIN betReqs
    /\ betReqs[id].reply = None
    /\ ~betReqs[id].timedOut
    /\ betReqs' = [betReqs EXCEPT ![id].timedOut = TRUE]
    /\ UNCHANGED <<pc, nonce, round, rwlock, elapsed, activeBets, eng, stopped,
                   balance, betTable, roundStore, sent, betChannel, cashReqs,
                   cashoutChannel, autos, credits, inst, mines, minesCalls,
                   fn, hub, ws>>

\* Betting loop takes a bet from betChannel: processBet up to the balance read.
BetReceive ==
    /\ pc = "betting"
    /\ betChannel # <<>>
    /\ RLockFree
    /\ LET id == Head(betChannel)
           req == betReqs[id]
           reject(msg, bal) ==
               /\ betReqs' = [betReqs EXCEPT ![id].reply = BetReply(FALSE, msg, 0, bal)]
               /\ UNCHANGED <<pc, eng, fn, hub, ws>>
       IN
       /\ betChannel' = Tail(betChannel)
       /\ IF AmountOutOfBounds(req.amount)
          THEN reject("Bet must be between 1.00 and 10000.00", 0)
          ELSE IF BettingClosed
          THEN reject("Betting is closed", 0)
          ELSE IF InsufficientBalance(balance[req.user], req.amount)
          THEN reject("Insufficient balance", balance[req.user])
          ELSE /\ pc' = "bet_debit"
               /\ eng' = [req |-> id, rid |-> round.id,
                          balance |-> balance[req.user], newBalance |-> 0]
               /\ UNCHANGED betReqs
    /\ UNCHANGED <<nonce, round, rwlock, elapsed, activeBets, stopped,
                   balance, betTable, roundStore, sent, cashReqs,
                   cashoutChannel, autos, credits, inst, mines, minesCalls,
                   fn, hub, ws>>

\* processBet: IncrByFloat(balanceKey, -amount).
BetDebit ==
    /\ pc = "bet_debit"
    /\ LET req == betReqs[eng.req]
           newBalance == balance[req.user] - req.amount * 100
       IN
       /\ balance' = [balance EXCEPT ![req.user] = newBalance]
       /\ eng' = [eng EXCEPT !.newBalance = newBalance]
       /\ pc' = IF newBalance < 0 THEN "bet_rollback" ELSE "bet_persist"
    /\ UNCHANGED <<nonce, round, rwlock, elapsed, activeBets, stopped,
                   betTable, roundStore, sent, betReqs, betChannel, cashReqs,
                   cashoutChannel, autos, credits, inst, mines, minesCalls,
                   fn, hub, ws>>

\* processBet: IncrByFloat(balanceKey, -amount) returns an error; the store
\* may or may not have applied the decrement.
BetDebitError(applied) ==
    /\ pc = "bet_debit"
    /\ LET req == betReqs[eng.req] IN
       balance' = IF applied
                  THEN [balance EXCEPT ![req.user] = @ - req.amount * 100]
                  ELSE balance
    /\ eng' = [req |-> eng.req, rid |-> eng.rid, balance |-> eng.balance,
               newBalance |-> 0, err |-> TRUE]
    /\ pc' = "bet_rollback"
    /\ UNCHANGED <<nonce, round, rwlock, elapsed, activeBets, stopped,
                   betTable, roundStore, sent, betReqs, betChannel, cashReqs,
                   cashoutChannel, autos, credits, inst, mines, minesCalls,
                   fn, hub, ws>>

\* processBet: compensating IncrByFloat(balanceKey, +amount), "Transaction failed".
BetRollback ==
    /\ pc = "bet_rollback"
    /\ LET req == betReqs[eng.req] IN
       /\ balance' = [balance EXCEPT ![req.user] = @ + req.amount * 100]
       /\ betReqs' = [betReqs EXCEPT ![eng.req].reply =
                          BetReply(FALSE, "Transaction failed", 0, 0)]
    /\ pc' = "betting"
    /\ eng' = NoLocals
    /\ UNCHANGED <<nonce, round, rwlock, elapsed, activeBets, stopped,
                   betTable, roundStore, sent, betChannel, cashReqs,
                   cashoutChannel, autos, credits, inst, mines, minesCalls,
                   fn, hub, ws>>

\* processBet: HSet of the ActiveBet, reply, bet_placed event.
BetPersist ==
    /\ pc = "bet_persist"
    /\ LET req == betReqs[eng.req]
           betID == eng.req
       IN
       /\ betTable' = [betTable EXCEPT ![eng.rid] =
                           Put(@, betID, NewActiveBet(betID, req))]
       /\ betReqs' = [betReqs EXCEPT ![eng.req].reply =
                          BetReply(TRUE, "Bet placed successfully", betID,
                                   eng.newBalance)]
       /\ Broadcast([type |-> "bet_placed", user_id |-> req.user,
                     amount |-> req.amount, bet_id |-> betID])
    /\ pc' = "betting"
    /\ eng' = NoLocals
    /\ UNCHANGED <<nonce, round, rwlock, elapsed, activeBets, stopped,
                   balance, roundStore, betChannel, cashReqs,
                   cashoutChannel, autos, credits, inst, mines, minesCalls,
                   fn, hub, ws>>

\* --------------------------------------------------------- processCashout
CashoutReply(success, message, mult, payout, bal) ==
    [success |-> success, message |-> message, multiplier |-> mult,
     payout |-> payout, balance |-> bal]

\* Phase check of processCashout, under RLock.
CannotCashout == round = NoRound \/ round.status # "RUNNING"

\* The payout as a refund of the stake, ignoring the multiplier.
PayoutStakeOnly(bet, currentMult) == bet.amount * MIN_MULTIPLIER

\* payout := bet.Amount * currentMult (units times hundredths = cents).
Payout(bet, currentMult) == bet.amount * currentMult

\* The cashed_out guard of processCashout on the bet read by HGet.
AlreadyCashedOut(bet) == bet.cashed_out

\* The record of one applied credit: which bet, for which round, its ordinal
\* among the credits of that bet, and whether the round was still RUNNING.
CreditRecord(betID, rid, user, mult, payout, byAuto) ==
    [bet |-> betID, rid |-> rid,
     n |-> Cardinality({c \in credits : c.bet = betID /\ c.rid = rid}) + 1,
     user |-> user, multiplier |-> mult, payout |-> payout, auto |-> byAuto,
     live |-> (round # NoRound /\ round.id = rid /\ round.status = "RUNNING")]

CashoutEvent(user, betID, mult, payout) ==
    [type |-> "cashout", user_id |-> user, bet_id |-> betID,
     multiplier |-> mult, payout |-> payout]

\* What Cashout returns to its caller (None while the caller still waits).
CashoutReturned(req) ==
    IF req.timedOut THEN CashoutReply(FALSE, "Cashout timeout", 0, 0, 0)
    ELSE req.reply

\* Manager.Cashout: non-blocking send on cashoutChannel, else "queue full".
CashoutCall(cap, user, betID) ==
    LET id == Cardinality(DOMAIN cashReqs) + 1
        req == [user |-> user, bet |-> betID,
                reply |-> None, timedOut |-> FALSE]
    IN
    /\ id <= cap
    /\ IF Len(cashoutChannel) < QueueCap
       THEN /\ cashoutChannel' = Append(cashoutChannel, id)
            /\ cashReqs' = Put(cashReqs, id, req)
       ELSE /\ cashoutChannel' = cashoutChannel
            /\ cashReqs' = Put(cashReqs, id,
                   [req EXCEPT !.reply = CashoutReply(FALSE, "Cashout queue full", 0, 0, 0)])
    /\ UNCHANGED <<pc, nonce, round, rwlock, elapsed, activeBets, eng, stopped,
                   balance, betTable, roundStore, sent, betReqs, betChannel,
                   autos, credits, inst, mines, minesCalls, fn, hub, ws>>

Cashout(user, betID) == CashoutCall(MaxCashoutReqs, user, betID)

\* The Cashout caller's CASHOUT_TIMEOUT (500 ms) fires before a reply.
CashoutCallerTimeout(id) ==
    /\ id \in DOMAIN cashReqs
    /\ cashReqs[id].reply = None
    /\ ~cashReqs[id].timedOut
    /\ cashReqs' = [cashReqs EXCEPT ![id].timedOut = TRUE]
    /\ UNCHANGED <<pc, nonce, round, rwlock, elapsed, activeBets, eng, stopped,
                   balance, betTable, roundStore, sent, betReqs, betChannel,
                   cashoutChannel, autos, credits, inst, mines, minesCalls,
                   fn, hub, ws>>

\* Running loop takes a request from cashoutChannel: processCashout up to the
\* snapshot of the multiplier and round id under RLock.
CashoutReceive ==
    /\ pc = "running"
    /\ cashoutChannel # <<>>
    /\ RLockFree
    /\ LET id == Head(cashoutChannel) IN
       /\ cashoutChannel' = Tail(cashoutChannel)
       /\ IF CannotCashout
          THEN /\ cashReqs' = [cashReqs EXCEPT ![id].reply =
                                   CashoutReply(FALSE, "Cannot cashout now", 0, 0, 0)]
               /\ UNCHANGED <<pc, eng, fn, hub, ws>>
          ELSE /\ pc' = "co_hget"
               /\ eng' = [req |-> id, rid |-> round.id,
                          currentMult |-> round.current]
               /\ UNCHANGED cashReqs
    /\ UNCHANGED <<nonce, round, rwlock, elapsed, activeBets, stopped,
                   balance, betTable, roundStore, sent, betReqs, betChannel,
                   autos, credits, inst, mines, minesCalls, fn, hub, ws>>

\* processCashout: HGet of the bet, cashed_out guard, payout.
CashoutHGet ==
    /\ pc = "co_hget"
    /\ LET req == cashReqs[eng.req]
           fail(msg) ==
               /\ cashReqs' = [cashReqs EXCEPT ![eng.req].reply =
                                   CashoutReply(FALSE, msg, 0, 0, 0)]
               /\ pc' = "running"
               /\ eng' = NoLocals
       IN
       IF req.bet \notin DOMAIN betTable[eng.rid]
       THEN fail("Bet not found")
       ELSE IF AlreadyCashedOut(betTable[eng.rid][req.bet])
       THEN fail("Already cashed out")
       ELSE /\ pc' = "co_credit"
            /\ eng' = [req |-> eng.req, rid |-> eng.rid,
                       currentMult |-> eng.currentMult,
                       bet |-> betTable[eng.rid][req.bet]]
            /\ UNCHANGED cashReqs
    /\ UNCHANGED <<nonce, round, rwlock, elapsed, activeBets, stopped,
                   balance, betTable, roundStore, sent, betReqs, betChannel,
                   cashoutChannel, autos, credits, inst, mines, minesCalls,
                   fn, hub, ws>>

\* processCashout: IncrByFloat(balanceKey of req.UserID, payout).
CashoutCredit ==
    /\ pc = "co_credit"
    /\ LET req == cashReqs[eng.req]
           payout == Payout(eng.bet, eng.currentMult)
       IN
       /\ balance' = [balance EXCEPT ![req.user] = @ + payout]
       /\ credits' = credits \cup
             {CreditRecord(req.bet, eng.rid, req.user, eng.currentMult,
                           payout, FALSE)}
       /\ eng' = [req |-> eng.req, rid |-> eng.rid,
                  currentMult |-> eng.currentMult, bet |-> eng.bet,
                  newBalance |-> balance[req.user] + payout]
    /\ pc' = "co_hset"
    /\ UNCHANGED <<nonce, round, rwlock, elapsed, activeBets, stopped,
                   betTable, roundStore, sent, betReqs, betChannel, cashReqs,
                   cashoutChannel, autos, inst, mines, minesCalls, fn, hub,
                   ws>>

\* The credit-error path marking the bet cashed out before it returns.
CashoutCreditErrorMarksBet(applied) ==
    /\ pc = "co_credit"
    /\ LET req == cashReqs[eng.req] IN
       /\ betTable' = [betTable EXCEPT ![eng.rid] =
                           Put(@, req.bet, [eng.bet EXCEPT !.cashed_out = TRUE])]
       /\ cashReqs' = [cashReqs EXCEPT ![eng.req].reply =
                           CashoutReply(FALSE, "Failed to credit balance",
                                        0, 0, 0)]
    /\ pc' = "running"
    /\ eng' = NoLocals
    /\ UNCHANGED <<nonce, round, rwlock, elapsed, activeBets, stopped,
                   balance, roundStore, sent, betReqs, betChannel,
                   cashoutChannel, autos, credits, inst, mines, minesCalls,
                   fn, hub, ws>>

\* processCashout: IncrByFloat(balanceKey, payout) returns an error; the store
\* may or may not have applied the increment. "Failed to credit balance".
CashoutCreditError(applied) ==
    /\ pc = "co_credit"
    /\ LET req == cashReqs[eng.req]
           payout == Payout(eng.bet, eng.currentMult)
       IN
       /\ balance' = IF applied
                     THEN [balance EXCEPT ![req.user] = @ + payout]
                     ELSE balance
       /\ credits' = IF applied
                     THEN credits \cup
                          {CreditRecord(req.bet, eng.rid, req.user,
                                        eng.currentMult, payout, FALSE)}
                     ELSE credits
       /\ cashReqs' = [cashReqs EXCEPT ![eng.req].reply =
                           CashoutReply(FALSE, "Failed to credit balance",
                                        0, 0, 0)]
    /\ pc' = "running"
    /\ eng' = NoLocals
    /\ UNCHANGED <<nonce, round, rwlock, elapsed, activeBets, stopped,
                   betTable, roundStore, sent, betReqs, betChannel,
                   cashoutChannel, autos, inst, mines, minesCalls, fn, hub,
                   ws>>

\* processCashout: HSet of the bet with cashed_out = true, reply, event.
CashoutHSet ==
    /\ pc = "co_hset"
    /\ LET req == cashReqs[eng.req]
           payout == Payout(eng.bet, eng.currentMult)
       IN
       /\ betTable' = [betTable EXCEPT ![eng.rid] =
                           Put(@, req.bet, [eng.bet EXCEPT !.cashed_out = TRUE])]
       /\ cashReqs' = [cashReqs EXCEPT ![eng.req].reply =
                           CashoutReply(TRUE, "Cashed out", eng.currentMult,
                                        payout, eng.newBalance)]
       /\ Broadcast(CashoutEvent(req.user, req.bet, eng.currentMult, payout))
    /\ pc' = "running"
    /\ eng' = NoLocals
    /\ UNCHANGED <<nonce, round, rwlock, elapsed, activeBets, stopped,
                   balance, roundStore, betReqs, betChannel,
                   cashoutChannel, autos, credits, inst, mines, minesCalls,
                   fn, hub, ws>>

\* ----------------------------------------------------- the running loop
\* Ticker case: Lock, then CurrentMultiplier := calculateMultiplier(elapsed).
\* The ticker case with a clock that stands still (mutant).
TickAdvanceFrozenClock ==
    /\ pc = "running"
    /\ RLockFree
    /\ rwlock' = "W"
    /\ elapsed' = elapsed
    /\ round' = [round EXCEPT !.current = calculateMultiplier(elapsed)]
    /\ pc' = "tick"
    /\ UNCHANGED <<nonce, activeBets, eng, stopped, balance, betTable,
                   roundStore, sent, betReqs, betChannel, cashReqs,
                   cashoutChannel, autos, credits, inst, mines, minesCalls,
                   fn, hub, ws>>

TickAdvance ==
    /\ pc = "running"
    /\ RLockFree
    /\ rwlock' = "W"
    /\ elapsed' = elapsed + 1
    /\ round' = [round EXCEPT !.current = calculateMultiplier(elapsed + 1)]
    /\ pc' = "tick"
    /\ UNCHANGED <<nonce, activeBets, eng, stopped, balance, betTable,
                   roundStore, sent, betReqs, betChannel, cashReqs,
                   cashoutChannel, autos, credits, inst, mines, minesCalls,
                   fn, hub, ws>>

\* The crash branch without CurrentMultiplier := CrashMultiplier.
CrashedRoundUnpinned(r) == [r EXCEPT !.status = "CRASHED"]

\* The crash branch re-opening the round in place instead of latching CRASHED.
CrashedRoundReopened(r) == [r EXCEPT !.status = "BETTING", !.current = r.crash]

\* The crash branch's writes to the round: CRASHED, multiplier pinned.
CrashedRound(r) == [r EXCEPT !.status = "CRASHED", !.current = r.crash]

CrashEvent(r) ==
    [type |-> "crash", multiplier |-> r.crash, server_seed |-> r.serverSeed,
     round_id |-> r.id]

\* Ticker case, currentMult >= CrashMultiplier: latch CRASHED, reveal the seed.
TickCrash ==
    /\ pc = "tick"
    /\ round.current >= round.crash
    /\ round' = CrashedRound(round)
    /\ Broadcast(CrashEvent(round))
    /\ pc' = "round_end"
    /\ UNCHANGED <<nonce, rwlock, elapsed, activeBets, eng, stopped, balance,
                   betTable, roundStore, betReqs, betChannel, cashReqs,
                   cashoutChannel, autos, credits, inst, mines, minesCalls,
                   fn, hub, ws>>

\* processRoundEnd (still under the lock): Del of the bet table; Unlock.
RoundEnd ==
    /\ pc = "round_end"
    /\ betTable' = [betTable EXCEPT ![round.id] = EmptyTable]
    /\ rwlock' = "free"
    /\ pc' = "pause"
    /\ UNCHANGED <<nonce, round, elapsed, activeBets, eng, stopped, balance,
                   roundStore, sent, betReqs, betChannel, cashReqs,
                   cashoutChannel, autos, credits, inst, mines, minesCalls,
                   fn, hub, ws>>

\* The trigger condition of processAutoCashouts on a snapshot entry.
AutoCashoutDue(bet, currentMult) ==
    ~bet.cashed_out /\ bet.auto_cashout > 0 /\ currentMult >= bet.auto_cashout

\* The goroutine processAutoCashouts starts for one bet.
NewAuto(betID, bet) ==
    [bet |-> betID, user |-> bet.user_id, spawn |-> <<round.id, elapsed>>,
     pc |-> "check", rid |-> 0, currentMult |-> 0, entry |-> None]

\* Ticker case below the crash point: update event, processAutoCashouts, Unlock.
TickUpdate ==
    /\ pc = "tick"
    /\ round.current < round.crash
    /\ Broadcast([type |-> "update", multiplier |-> round.current,
                  round_id |-> round.id])
    /\ autos' = autos \cup
          {NewAuto(b, activeBets[b]) :
              b \in {x \in DOMAIN activeBets :
                        AutoCashoutDue(activeBets[x], round.current)}}
    /\ rwlock' = "free"
    /\ pc' = "running"
    /\ UNCHANGED <<nonce, round, elapsed, activeBets, eng, stopped, balance,
                   betTable, roundStore, betReqs, betChannel, cashReqs,
                   cashoutChannel, credits, inst, mines, minesCalls, fn, hub,
                   ws>>

\* time.Sleep(3 s) after the round, then back to gameLoop.
PauseDone ==
    /\ pc = "pause"
    /\ pc' = "idle"
    /\ UNCHANGED <<nonce, round, rwlock, elapsed, activeBets, eng, stopped,
                   balance, betTable, roundStore, sent, betReqs, betChannel,
                   cashReqs, cashoutChannel, autos, credits, inst, mines, minesCalls,
                   fn, hub, ws>>

\* --------------------------------- processCashout in an auto-cashout goroutine
\* Phase check and snapshot under RLock; the goroutine has no reply channel.
AutoCheck(g) ==
    /\ g \in autos
    /\ g.pc = "check"
    /\ RLockFree
    /\ autos' = IF CannotCashout
                THEN autos \ {g}
                ELSE (autos \ {g}) \cup
                     {[g EXCEPT !.pc = "hget", !.rid = round.id,
                                !.currentMult = round.current]}
    /\ UNCHANGED <<pc, nonce, round, rwlock, elapsed, activeBets, eng, stopped,
                   balance, betTable, roundStore, sent, betReqs, betChannel,
                   cashReqs, cashoutChannel, credits, inst, mines, minesCalls,
                   fn, hub, ws>>

AutoHGet(g) ==
    /\ g \in autos
    /\ g.pc = "hget"
    /\ autos' = IF g.bet \notin DOMAIN betTable[g.rid]
                THEN autos \ {g}
                ELSE IF AlreadyCashedOut(betTable[g.rid][g.bet])
                THEN autos \ {g}
                ELSE (autos \ {g}) \cup
                     {[g EXCEPT !.pc = "credit",
                                !.entry = betTable[g.rid][g.bet]]}
    /\ UNCHANGED <<pc, nonce, round, rwlock, elapsed, activeBets, eng, stopped,
                   balance, betTable, roundStore, sent, betReqs, betChannel,
                   cashReqs, cashoutChannel, credits, inst, mines, minesCalls,
                   fn, hub, ws>>

AutoCredit(g) ==
    /\ g \in autos
    /\ g.pc = "credit"
    /\ LET payout == Payout(g.entry, g.currentMult) IN
       /\ balance' = [balance EXCEPT ![g.user] = @ + payout]
       /\ credits' = credits \cup
             {CreditRecord(g.bet, g.rid, g.user, g.currentMult, payout, TRUE)}
    /\ autos' = (autos \ {g}) \cup {[g EXCEPT !.pc = "hset"]}
    /\ UNCHANGED <<pc, nonce, round, rwlock, elapsed, activeBets, eng, stopped,
                   betTable, roundStore, sent, betReqs, betChannel, cashReqs,
                   cashoutChannel, inst, mines, minesCalls, fn, hub, ws>>

AutoHSet(g) ==
    /\ g \in autos
    /\ g.pc = "hset"
    /\ betTable' = [betTable EXCEPT ![g.rid] =
                        Put(@, g.bet, [g.entry EXCEPT !.cashed_out = TRUE])]
    /\ Broadcast(CashoutEvent(g.user, g.bet, g.currentMult,
                              Payout(g.entry, g.currentMult)))
    /\ autos' = autos \ {g}
    /\ UNCHANGED <<pc, nonce, round, rwlock, elapsed, activeBets, eng, stopped,
                   balance, roundStore, betReqs, betChannel, cashReqs,
                   cashoutChannel, credits, inst, mines, minesCalls, fn, hub,
                   ws>>

\* ------------------------------------------------- instant engines: PlaceBet
\* plinkoMultipliers, in hundredths; slot k is element k + 1.
plinkoMultipliers(risk) ==
    CASE risk = "low" ->
           <<1600, 900, 200, 140, 140, 120, 110, 100, 50,
             100, 110, 120, 140, 140, 200, 900, 1600>>
      [] risk = "medium" ->
           <<11000, 4100, 1000, 500, 300, 150, 100, 50, 30,
             50, 100, 150, 300, 500, 1000, 4100, 11000>>
      [] risk = "high" ->
           <<100000, 13000, 2600, 900, 400, 200, 20, 20, 20,
             20, 20, 200, 400, 900, 2600, 13000, 100000>>

\* PlinkoEngine.getMultiplier
getMultiplier(risk, landingSlot, rows) ==
    LET multipliers == plinkoMultipliers(risk)
        slot == IF landingSlot < 0 THEN 0
                ELSE IF landingSlot >= Len(multipliers) THEN Len(multipliers) - 1
                ELSE landingSlot
        baseMultiplier == multipliers[slot + 1]
    IN  IF rows < 16 /\ baseMultiplier > 1000
        THEN 1000 + ((baseMultiplier - 1000) * rows) \div 16
        ELSE baseMultiplier

\* DiceEngine.calculateMultiplier; target in hundredths of a point.
diceCalculateMultiplier(target, isOver) ==
    LET chance == IF isOver THEN 10000 - target ELSE target
        winChance == IF chance <= 100 THEN 100 ELSE chance
    IN  (99 * 10000) \div winChance

\* "roll >= target" wins an over bet, "roll <= target" an under bet (mutant).
diceWinInclusive(roll, target, isOver) ==
    IF isOver THEN roll >= target ELSE roll <= target

\* Win rule of DiceEngine.PlaceBet; roll and target in hundredths.
diceWin(roll, target, isOver) ==
    IF isOver THEN roll > target ELSE roll < target

\* Outcomes the instant request's random draw may have: a Plinko landing slot
\* for <<risk, rows>>, a Dice roll for <<target, isOver>>; Mines draws nothing
\* that PlaceBet pays on.
PlinkoDrops == {<<"low", 8, 8>>, <<"low", 8, 0>>}
DiceRolls == {<<2500, 5000, TRUE>>, <<7500, 5000, TRUE>>}

\* Payout credited by the handler after a successful debit, in cents.
InstantPayouts(kind, amount) ==
    CASE kind = "mines" -> {0}
      [] kind = "plinko" ->
           {amount * getMultiplier(d[1], d[3], d[2]) : d \in PlinkoDrops}
      [] kind = "dice" ->
           {IF diceWin(d[1], d[2], d[3])
            THEN amount * diceCalculateMultiplier(d[2], d[3]) ELSE 0 :
               d \in DiceRolls}

InstantReply(success, message, payout, bal) ==
    [success |-> success, message |-> message, payout |-> payout,
     balance |-> bal]

\* MinesEngine / PlinkoEngine / DiceEngine PlaceBet up to the balance read;
\* cap bounds the number of calls.
InstantCall(cap, kind, user, amount) ==
    LET id == Cardinality(DOMAIN inst) + 1
        call(p, reply) ==
            [kind |-> kind, user |-> user, amount |-> amount, pc |-> p,
             newBalance |-> 0, reply |-> reply,
             mine_count |-> 0, minePositions |-> <<>>]
    IN
    /\ id <= cap
    /\ inst' = Put(inst, id,
          IF AmountOutOfBounds(amount)
          THEN call("done", InstantReply(FALSE,
                        "Bet must be between 1.00 and 10000.00", 0, 0))
          ELSE IF InsufficientBalance(balance[user], amount)
          THEN call("done", InstantReply(FALSE, "Insufficient balance", 0,
                                         balance[user]))
          ELSE call("debit", None))
    /\ UNCHANGED <<pc, nonce, round, rwlock, elapsed, activeBets, eng, stopped,
                   balance, betTable, roundStore, sent, betReqs, betChannel,
                   cashReqs, cashoutChannel, autos, credits,
                   mines, minesCalls, fn, hub, ws>>

InstantPlaceBet(kind, user, amount) ==
    InstantCall(MaxInstant, kind, user, amount)

\* IncrByFloat(balanceKey, -amount)
InstantDebit(id) ==
    /\ id \in DOMAIN inst
    /\ inst[id].pc = "debit"
    /\ LET c == inst[id]
           newBalance == balance[c.user] - c.amount * 100
       IN
       /\ balance' = [balance EXCEPT ![c.user] = newBalance]
       /\ inst' = [inst EXCEPT ![id].newBalance = newBalance,
                               ![id].pc = IF newBalance < 0 THEN "rollback"
                                          ELSE "settle"]
    /\ UNCHANGED <<pc, nonce, round, rwlock, elapsed, activeBets, eng, stopped,
                   betTable, roundStore, sent, betReqs, betChannel,
                   cashReqs, cashoutChannel, autos, credits,
                   mines, minesCalls, fn, hub, ws>>

\* Compensating IncrByFloat(balanceKey, +amount), "Transaction failed".
InstantRollback(id) ==
    /\ id \in DOMAIN inst
    /\ inst[id].pc = "rollback"
    /\ balance' = [balance EXCEPT ![inst[id].user] = @ + inst[id].amount * 100]
    /\ inst' = [inst EXCEPT ![id].pc = "done",
                            ![id].reply = InstantReply(FALSE,
                                              "Transaction failed", 0, 0)]
    /\ UNCHANGED <<pc, nonce, round, rwlock, elapsed, activeBets, eng, stopped,
                   betTable, roundStore, sent, betReqs, betChannel,
                   cashReqs, cashoutChannel, autos, credits,
                   mines, minesCalls, fn, hub, ws>>

\* ------------------------------------------------------------ Mines engine
\* Mine counts of the requests and the digests a derivation may see: the
\* position (digest mod 25) of iteration i is element (i mod Len) of a pattern.
MineCounts == {1, 23}
MineHashPatterns ==
    {<<3, 7>>, [k \in 1..22 |-> k - 1], [k \in 1..25 |-> k - 1]}
ClickTiles == {3, 7}

\* position := int(bigInt.Uint64() % MINES_GRID_SIZE) of iteration i.
PositionHash(pattern, i) ==
    pattern[(i % Len(pattern)) + 1] % MINES_GRID_SIZE

RECURSIVE minePositionsLoop(_, _, _, _)
minePositionsLoop(pattern, mineCount, positions, i) ==
    IF Len(positions) < mineCount /\ i < MinesLoopCap
    THEN LET position == PositionHash(pattern, i)
             used == {positions[k] : k \in 1..Len(positions)}
         IN  minePositionsLoop(pattern, mineCount,
                 IF position \notin used THEN Append(positions, position)
                 ELSE positions,
                 i + 1)
    ELSE positions

\* MinesEngine.generateMinePositions
generateMinePositions(pattern, mineCount) ==
    minePositionsLoop(pattern, mineCount, <<>>, 0)

RECURSIVE Choose(_, _)
Choose(n, k) == IF k = 0 THEN 1 ELSE (Choose(n, k - 1) * (n - k + 1)) \div k

RECURSIVE GCD(_, _)
GCD(a, b) == IF b = 0 THEN a ELSE GCD(b, a % b)

\* The loop's product prod_{i<r} (25-i)/(safe-i) is C(25,r)/C(safe,r); the
\* numerator and denominator below are that fraction in lowest terms.
payoutNumerator(mineCount, r) ==
    LET n == Choose(MINES_GRID_SIZE, r)
        d == Choose(MINES_GRID_SIZE - mineCount, r)
    IN  n \div GCD(n, d)

payoutDenominator(mineCount, r) ==
    LET n == Choose(MINES_GRID_SIZE, r)
        d == Choose(MINES_GRID_SIZE - mineCount, r)
    IN  d \div GCD(n, d)

\* MinesEngine.calculatePayout, in cents: bet * 0.97 * prod (25-i)/(safe-i),
\* truncated to two decimals; the value of the exact product.
calculatePayout(betAmount, mineCount, revealedCount) ==
    IF revealedCount = 0 THEN betAmount * 100
    ELSE (betAmount * MinesHouseEdge
              * payoutNumerator(mineCount, revealedCount))
             \div payoutDenominator(mineCount, revealedCount)

\* The code forms the product in float64 and truncates payout*100 with
\* int(): when the exact value of payout*100 lies within FloatSlack^-1 of a
\* whole number of cents, the rounding of the float product decides on which
\* side of it the truncation falls.
FloatSlack == 100000

\* calculatePayout with a house edge of 5% (mutant).
calculatePayoutEdgeFive(betAmount, mineCount, revealedCount) ==
    IF revealedCount = 0 THEN {betAmount * 100}
    ELSE {(betAmount * 95 * payoutNumerator(mineCount, revealedCount))
              \div payoutDenominator(mineCount, revealedCount)}

calculatePayoutFloat(betAmount, mineCount, revealedCount) ==
    IF revealedCount = 0 THEN {betAmount * 100}
    ELSE LET q == payoutDenominator(mineCount, revealedCount)
             x == betAmount * MinesHouseEdge
                      * payoutNumerator(mineCount, revealedCount)
             exact == x \div q
             rem == x % q
         IN  {exact}
             \cup (IF rem <= q \div FloatSlack THEN {exact - 1} ELSE {})
             \cup (IF q - rem <= q \div FloatSlack THEN {exact + 1} ELSE {})

\* The MinesGameState PlaceBet builds in memory.
NewMinesGame(gameID, user, amount, mineCount, minePositions) ==
    [game_id |-> gameID, user_id |-> user, bet_amount |-> amount,
     mine_count |-> mineCount, mine_positions |-> minePositions,
     revealed_tiles |-> <<>>, current_payout |-> amount * 100,
     status |-> "ACTIVE"]

\* json.Marshal of a MinesGameState: ServerSeed and MinePositions are tagged "-".
MinesToJSON(g) ==
    [game_id |-> g.game_id, user_id |-> g.user_id, bet_amount |-> g.bet_amount,
     mine_count |-> g.mine_count, revealed_tiles |-> g.revealed_tiles,
     current_payout |-> g.current_payout, status |-> g.status]

\* json.Unmarshal into a MinesGameState: fields absent from the document keep
\* their zero value.
MinesFromJSON(doc) ==
    [game_id |-> doc.game_id, user_id |-> doc.user_id,
     bet_amount |-> doc.bet_amount, mine_count |-> doc.mine_count,
     mine_positions |->
         IF "mine_positions" \in DOMAIN doc THEN doc.mine_positions ELSE <<>>,
     revealed_tiles |-> doc.revealed_tiles,
     current_payout |-> doc.current_payout, status |-> doc.status]

Elements(seq) == {seq[k] : k \in 1..Len(seq)}

MinesReply(success, message, isMine, payout, status) ==
    [success |-> success, message |-> message, is_mine |-> isMine,
     payout |-> payout, game_status |-> status]

MinesCall(kind, user, gameID, tile, p, state, reply) ==
    [kind |-> kind, user |-> user, game |-> gameID, tile |-> tile, pc |-> p,
     state |-> state, reply |-> reply]

\* handleTileClick up to its store write: load, validations, mine test.
MinesClick(user, gameID, tile) ==
    LET id == Cardinality(DOMAIN minesCalls) + 1
        fail(msg) == MinesCall("click", user, gameID, tile, "done", None,
                               MinesReply(FALSE, msg, FALSE, 0, "none"))
        gameState == MinesFromJSON(mines[gameID])
    IN
    /\ id <= MaxMinesCalls
    /\ minesCalls' = Put(minesCalls, id,
          IF gameID \notin DOMAIN mines THEN fail("Game not found")
          ELSE IF gameState.status # "ACTIVE" THEN fail("Game is not active")
          ELSE IF tile < 0 \/ tile >= MINES_GRID_SIZE
          THEN fail("Invalid tile ID")
          ELSE IF tile \in Elements(gameState.revealed_tiles)
          THEN fail("Tile already revealed")
          ELSE IF tile \in Elements(gameState.mine_positions)
          THEN MinesCall("click", user, gameID, tile, "set",
                         [gameState EXCEPT !.status = "BUSTED",
                                           !.current_payout = 0], None)
          ELSE MinesCall("click", user, gameID, tile, "set",
                   [gameState EXCEPT
                       !.revealed_tiles = Append(@, tile),
                       !.current_payout =
                           calculatePayout(gameState.bet_amount,
                               gameState.mine_count,
                               Len(gameState.revealed_tiles) + 1)], None))
    /\ UNCHANGED <<pc, nonce, round, rwlock, elapsed, activeBets, eng, stopped,
                   balance, betTable, roundStore, sent, betReqs, betChannel,
                   cashReqs, cashoutChannel, autos, credits, inst, mines, fn,
                   hub, ws>>

\* handleTileClick: Set of the updated session, reply.
MinesClickSet(id) ==
    /\ id \in DOMAIN minesCalls
    /\ minesCalls[id].kind = "click"
    /\ minesCalls[id].pc = "set"
    /\ LET c == minesCalls[id]
           busted == c.state.status = "BUSTED"
       IN
       /\ mines' = Put(mines, c.game, MinesToJSON(c.state))
       /\ minesCalls' = [minesCalls EXCEPT
              ![id].pc = "done",
              ![id].reply = MinesReply(TRUE,
                                IF busted THEN "You hit a mine!"
                                ELSE "Safe tile!",
                                busted, c.state.current_payout,
                                c.state.status)]
    /\ UNCHANGED <<pc, nonce, round, rwlock, elapsed, activeBets, eng, stopped,
                   balance, betTable, roundStore, sent, betReqs, betChannel,
                   cashReqs, cashoutChannel, autos, credits, inst, fn, hub,
                   ws>>

\* The revealed-tile check of handleCashout dropped.
NothingRevealedIgnored(gameState) == FALSE

\* len(gameState.RevealedTiles) == 0 in handleCashout.
NothingRevealed(gameState) == Len(gameState.revealed_tiles) = 0

\* handleCashout up to the credit: load, status and revealed-tile checks.
MinesCashout(user, gameID) ==
    LET id == Cardinality(DOMAIN minesCalls) + 1
        fail(msg) == MinesCall("cashout", user, gameID, 0, "done", None,
                               MinesReply(FALSE, msg, FALSE, 0, "none"))
        gameState == MinesFromJSON(mines[gameID])
    IN
    /\ id <= MaxMinesCalls
    /\ minesCalls' = Put(minesCalls, id,
          IF gameID \notin DOMAIN mines THEN fail("Game not found")
          ELSE IF gameState.status # "ACTIVE" THEN fail("Game is not active")
          ELSE IF NothingRevealed(gameState)
          THEN fail("Must reveal at least one tile before cashing out")
          ELSE MinesCall("cashout", user, gameID, 0, "credit",
                         [gameState EXCEPT !.status = "CASHED_OUT"], None))
    /\ UNCHANGED <<pc, nonce, round, rwlock, elapsed, activeBets, eng, stopped,
                   balance, betTable, roundStore, sent, betReqs, betChannel,
                   cashReqs, cashoutChannel, autos, credits, inst, mines, fn,
                   hub, ws>>

\* handleCashout: IncrByFloat(balanceKey of the request's user, CurrentPayout).
MinesCashoutCredit(id) ==
    /\ id \in DOMAIN minesCalls
    /\ minesCalls[id].kind = "cashout"
    /\ minesCalls[id].pc = "credit"
    /\ balance' = [balance EXCEPT ![minesCalls[id].user] =
                       @ + minesCalls[id].state.current_payout]
    /\ minesCalls' = [minesCalls EXCEPT ![id].pc = "set"]
    /\ UNCHANGED <<pc, nonce, round, rwlock, elapsed, activeBets, eng, stopped,
                   betTable, roundStore, sent, betReqs, betChannel,
                   cashReqs, cashoutChannel, autos, credits, inst, mines, fn,
                   hub, ws>>

\* handleCashout: Set of the CASHED_OUT session, reply.
MinesCashoutSet(id) ==
    /\ id \in DOMAIN minesCalls
    /\ minesCalls[id].kind = "cashout"
    /\ minesCalls[id].pc = "set"
    /\ LET c == minesCalls[id] IN
       /\ mines' = Put(mines, c.game, MinesToJSON(c.state))
       /\ minesCalls' = [minesCalls EXCEPT
              ![id].pc = "done",
              ![id].reply = MinesReply(TRUE, "Cashed out successfully", FALSE,
                                       c.state.current_payout, c.state.status)]
    /\ UNCHANGED <<pc, nonce, round, rwlock, elapsed, activeBets, eng, stopped,
                   balance, betTable, roundStore, sent, betReqs, betChannel,
                   cashReqs, cashoutChannel, autos, credits, inst, fn, hub,
                   ws>>

\* The rest of PlaceBet: the result is drawn, a payout (if any) is credited
\* with IncrByFloat, the game record is stored and the reply returned. Mines
\* derives its mine positions and stores the session; it pays nothing here.
InstantSettle(id) ==
    /\ id \in DOMAIN inst
    /\ inst[id].pc = "settle"
    /\ \E payout \in InstantPayouts(inst[id].kind, inst[id].amount) :
       \E mineCount \in MineCounts : \E pattern \in MineHashPatterns :
        LET isMines == inst[id].kind = "mines"
            minePositions == IF isMines
                             THEN generateMinePositions(pattern, mineCount)
                             ELSE <<>>
        IN
        /\ balance' = [balance EXCEPT ![inst[id].user] = @ + payout]
        /\ inst' = [inst EXCEPT ![id].pc = "done",
                                ![id].reply = InstantReply(TRUE, "ok", payout,
                                    IF payout > 0
                                    THEN balance[inst[id].user] + payout
                                    ELSE inst[id].newBalance),
                                ![id].mine_count = IF isMines THEN mineCount
                                                   ELSE 0,
                                ![id].minePositions = minePositions]
        /\ mines' = IF isMines
                    THEN Put(mines, id,
                             MinesToJSON(NewMinesGame(id, inst[id].user,
                                 inst[id].amount, mineCount, minePositions)))
                    ELSE mines
    /\ UNCHANGED <<pc, nonce, round, rwlock, elapsed, activeBets, eng, stopped,
                   betTable, roundStore, sent, betReqs, betChannel,
                   cashReqs, cashoutChannel, autos, credits, minesCalls, fn,
                   hub, ws>>

\* PlaceBet of Plinko or Dice when the store reports an error on the payout
\* credit: the handler returns "Failed to credit payout" at once. The
\* increment may or may not have been applied by the store (applied). Dice
\* credits only a winning roll; Plinko credits every drop.
InstantCreditError(id, applied) ==
    /\ id \in DOMAIN inst
    /\ inst[id].pc = "settle"
    /\ inst[id].kind \in {"plinko", "dice"}
    /\ \E payout \in InstantPayouts(inst[id].kind, inst[id].amount) :
        /\ payout > 0
        /\ balance' = [balance EXCEPT ![inst[id].user] =
                          IF applied THEN @ + payout ELSE @]
        /\ inst' = [inst EXCEPT ![id].pc = "done",
                                ![id].reply = InstantReply(FALSE,
                                    "Failed to credit payout", 0, 0)]
    /\ UNCHANGED <<pc, nonce, round, rwlock, elapsed, activeBets, eng, stopped,
                   betTable, roundStore, sent, betReqs, betChannel,
                   cashReqs, cashoutChannel, autos, credits, mines,
                   minesCalls, fn, hub, ws>>

\* ------------------------------------------------------------- Dice engine
\* Targets are in hundredths of a point, like rolls.
DICE_MIN_VALUE == 0
DICE_MAX_VALUE == 10000

\* Width kept of the digest prefix generateRoll converts (the code keeps
\* 2^64; 2^16 keeps the product with 10000 below 2^31).
DiceHashBits == 2 ^ 16

\* DiceEngine.generateRoll: (prefix / 2^w) * 100, truncated to two decimals.
generateRoll(u) == (u * 10000) \div DiceHashBits

\* <<target, is_over>> of the roll requests, and the digest prefixes a roll
\* may be derived from (rolls 0.00, 49.99, 50.00, 50.01, 98.50, 98.51, 99.99).
DiceTargets == {0, 100, 150, 5000, 9850, 9900, 10001}
DiceDigests == {0, 32767, 32768, 32775, 64553, 64560, 65535}

DiceReply(success, message, roll, win, multiplier, payout, bal) ==
    [success |-> success, message |-> message, roll_result |-> roll,
     win |-> win, multiplier |-> multiplier, payout |-> payout,
     balance |-> bal]

\* DiceEngine.PlaceBet up to the balance read.
DicePlaceBet(user, amount, target, isOver) ==
    LET id == Cardinality(DOMAIN inst) + 1
        call(p, reply) ==
            [kind |-> "dice", user |-> user, amount |-> amount,
             target |-> target, is_over |-> isOver, pc |-> p,
             newBalance |-> 0, reply |-> reply]
        fail(message, bal) ==
            call("done", DiceReply(FALSE, message, 0, FALSE, 0, 0, bal))
    IN
    /\ id <= MaxInstant
    /\ inst' = Put(inst, id,
          IF AmountOutOfBounds(amount)
          THEN fail("Bet must be between 1.00 and 10000.00", 0)
          ELSE IF target < DICE_MIN_VALUE \/ target > DICE_MAX_VALUE
          THEN fail("Target must be between 0.00 and 100.00", 0)
          ELSE IF isOver /\ target >= 9900
          THEN fail("Target too high for 'over' bet", 0)
          ELSE IF ~isOver /\ target <= 100
          THEN fail("Target too low for 'under' bet", 0)
          ELSE IF InsufficientBalance(balance[user], amount)
          THEN fail("Insufficient balance", balance[user])
          ELSE call("debit", None))
    /\ UNCHANGED <<pc, nonce, round, rwlock, elapsed, activeBets, eng, stopped,
                   balance, betTable, roundStore, sent, betReqs, betChannel,
                   cashReqs, cashoutChannel, autos, credits,
                   mines, minesCalls, fn, hub, ws>>

\* The rest of DiceEngine.PlaceBet after the debit: the roll is derived, win
\* and multiplier computed, a winning payout credited with IncrByFloat, the
\* game record stored and the reply returned.
DiceSettle(id) ==
    /\ id \in DOMAIN inst
    /\ inst[id].pc = "settle"
    /\ inst[id].kind = "dice"
    /\ \E u \in DiceDigests :
        LET c == inst[id]
            rollResult == generateRoll(u)
            win == diceWin(rollResult, c.target, c.is_over)
            multiplier == diceCalculateMultiplier(c.target, c.is_over)
            payout == IF win THEN c.amount * multiplier ELSE 0
            finalBalance == IF win THEN balance[c.user] + payout
                            ELSE c.newBalance
        IN
        /\ balance' = IF win THEN [balance EXCEPT ![c.user] = finalBalance]
                      ELSE balance
        /\ inst' = [inst EXCEPT ![id].pc = "done",
                                ![id].reply = DiceReply(TRUE,
                                    "Dice rolled successfully", rollResult,
                                    win, multiplier, payout, finalBalance)]
    /\ UNCHANGED <<pc, nonce, round, rwlock, elapsed, activeBets, eng, stopped,
                   betTable, roundStore, sent, betReqs, betChannel,
                   cashReqs, cashoutChannel, autos, credits, mines,
                   minesCalls, fn, hub, ws>>

\* --------------------------------------------------------------------- Hub
\* Hub.Broadcast with a blocking send, h.broadcast <- message (mutant).
HubBroadcastBlocking(message) ==
    /\ hub.calls < MaxBroadcasts
    /\ Len(hub.broadcast) < HubBroadcastCap
    /\ hub' = [hub EXCEPT !.broadcast = Append(@, message),
                          !.calls = @ + 1, !.last = "enqueued"]
    /\ UNCHANGED <<pc, nonce, round, rwlock, elapsed, activeBets, eng, stopped,
                   balance, betTable, roundStore, sent, betReqs, betChannel,
                   cashReqs, cashoutChannel, autos, credits, inst, mines,
                   minesCalls, fn, ws>>

\* Hub.Broadcast: select { case h.broadcast <- message: default: log }.
\* calls counts the calls; last is the branch the last call took.
HubBroadcast(message) ==
    /\ hub.calls < MaxBroadcasts
    /\ hub' = IF Len(hub.broadcast) < HubBroadcastCap
              THEN [hub EXCEPT !.broadcast = Append(@, message),
                               !.calls = @ + 1, !.last = "enqueued"]
              ELSE [hub EXCEPT !.calls = @ + 1, !.last = "dropped"]
    /\ UNCHANGED <<pc, nonce, round, rwlock, elapsed, activeBets, eng, stopped,
                   balance, betTable, roundStore, sent, betReqs, betChannel,
                   cashReqs, cashoutChannel, autos, credits, inst, mines,
                   minesCalls, fn, ws>>

\* go hub.Run()
HubStart ==
    /\ ~hub.running
    /\ hub' = [hub EXCEPT !.running = TRUE]
    /\ UNCHANGED <<pc, nonce, round, rwlock, elapsed, activeBets, eng, stopped,
                   balance, betTable, roundStore, sent, betReqs, betChannel,
                   cashReqs, cashoutChannel, autos, credits, inst, mines,
                   minesCalls, fn, ws>>

\* The goroutines started by 'go client.send(jsonMessage)' for one message:
\* one per registered client, each about to take the client's mutex.
SendGoroutines(message) ==
    {[msg |-> message, client |-> c, pc |-> "lock"] : c \in ws.clients}

\* Hub.Run, case message := <-h.broadcast: the message is taken off the
\* channel and handed to the clients' send goroutines.
HubRun ==
    /\ hub.running
    /\ hub.broadcast # <<>>
    /\ hub' = [hub EXCEPT !.broadcast = Tail(@)]
    /\ ws' = [ws EXCEPT !.sends = @ \cup SendGoroutines(Head(hub.broadcast))]
    /\ UNCHANGED <<pc, nonce, round, rwlock, elapsed, activeBets, eng, stopped,
                   balance, betTable, roundStore, sent, betReqs, betChannel,
                   cashReqs, cashoutChannel, autos, credits, inst, mines,
                   minesCalls, fn>>

\* gameWebSocketHandler up to its read loop: RegisterClient hands a new
\* Client to Hub.Run over the unbuffered register channel (case client :=
\* <-h.register), then the handler writes initial_state on the connection
\* itself when there is a current round.
WsRegister(c) ==
    /\ hub.running
    /\ ws.handler[c] = "new"
    /\ ws' = [ws EXCEPT !.clients = @ \cup {c},
                        !.handler[c] = IF GetCurrentRound = NoRound
                                       THEN "read" ELSE "write"]
    /\ UNCHANGED <<pc, nonce, round, rwlock, elapsed, activeBets, eng, stopped,
                   balance, betTable, roundStore, sent, betReqs, betChannel,
                   cashReqs, cashoutChannel, autos, credits, inst, mines,
                   minesCalls, fn, hub>>

\* gameWebSocketHandler, case "ping": conn.WriteMessage(pong) is called on
\* the connection, without the Client's mutex (the handler has no Client).
\* The replies to place_bet and cashout are written the same way.
WsPing(c) ==
    /\ ws.handler[c] = "read"
    /\ ws.direct < MaxDirectWrites
    /\ ws' = [ws EXCEPT !.handler[c] = "write", !.direct = @ + 1]
    /\ UNCHANGED <<pc, nonce, round, rwlock, elapsed, activeBets, eng, stopped,
                   balance, betTable, roundStore, sent, betReqs, betChannel,
                   cashReqs, cashoutChannel, autos, credits, inst, mines,
                   minesCalls, fn, hub>>

\* The handler's conn.WriteMessage returns (its error is ignored).
WsWriteDone(c) ==
    /\ ws.handler[c] = "write"
    /\ ws' = [ws EXCEPT !.handler[c] = "read"]
    /\ UNCHANGED <<pc, nonce, round, rwlock, elapsed, activeBets, eng, stopped,
                   balance, betTable, roundStore, sent, betReqs, betChannel,
                   cashReqs, cashoutChannel, autos, credits, inst, mines,
                   minesCalls, fn, hub>>

\* gameWebSocketHandler: ReadMessage fails, UnregisterClient finds the client
\* of this connection and hands it to Hub.Run (case client :=
\* <-h.unregister), which deletes it and closes the connection.
WsReadError(c) ==
    /\ hub.running
    /\ ws.handler[c] = "read"
    /\ ws' = [ws EXCEPT !.clients = @ \ {c}, !.handler[c] = "closed"]
    /\ UNCHANGED <<pc, nonce, round, rwlock, elapsed, activeBets, eng, stopped,
                   balance, betTable, roundStore, sent, betReqs, betChannel,
                   cashReqs, cashoutChannel, autos, credits, inst, mines,
                   minesCalls, fn, hub>>

\* Whether some send goroutine holds the mutex of s's client.
ClientMuHeld(s) ==
    \E t \in ws.sends : t.client = s.client /\ t.pc = "write"

\* Client.send, c.mu.Lock(): any of the goroutines waiting for the mutex may
\* get it; then SetWriteDeadline and WriteMessage begin.
SendLock(s) ==
    /\ s \in ws.sends
    /\ s.pc = "lock"
    /\ ~ClientMuHeld(s)
    /\ ws' = [ws EXCEPT !.sends = (@ \ {s}) \cup {[s EXCEPT !.pc = "write"]}]
    /\ UNCHANGED <<pc, nonce, round, rwlock, elapsed, activeBets, eng, stopped,
                   balance, betTable, roundStore, sent, betReqs, betChannel,
                   cashReqs, cashoutChannel, autos, credits, inst, mines,
                   minesCalls, fn, hub>>

\* Client.send, WriteMessage returns: with nil, or with an error (the peer
\* is gone, the 10 s deadline passed, the connection is closed), which is
\* logged; then the deferred c.mu.Unlock() and the goroutine ends.
SendWrite(s, ok) ==
    /\ s \in ws.sends
    /\ s.pc = "write"
    /\ ok => ws.handler[s.client] # "closed"
    /\ ws' = [ws EXCEPT !.sends = @ \ {s},
                        !.written[s.client] =
                            IF ok THEN Append(@, s.msg) ELSE @,
                        !.failed = IF ok THEN @ ELSE @ \cup {s.client}]
    /\ UNCHANGED <<pc, nonce, round, rwlock, elapsed, activeBets, eng, stopped,
                   balance, betTable, roundStore, sent, betReqs, betChannel,
                   cashReqs, cashoutChannel, autos, credits, inst, mines,
                   minesCalls, fn, hub>>

\* ------------------------------------------------------------------- Next
Next ==
    \/ StartRound
    \/ BettingTimer
    \/ \E u \in Bettors, in \in BetInputs : PlaceBet(u, in[1], in[2])
    \/ BetReceive
    \/ BetDebit
    \/ BetPersist
    \/ \E u \in Users, b \in 1..MaxBetReqs : Cashout(u, b)
    \/ CashoutReceive
    \/ CashoutHGet
    \/ CashoutCredit
    \/ CashoutHSet
    \/ TickAdvance
    \/ TickCrash
    \/ RoundEnd
    \/ TickUpdate
    \/ PauseDone
    \/ \E g \in autos : AutoCheck(g)
    \/ \E g \in autos : AutoHGet(g)
    \/ \E g \in autos : AutoCredit(g)
    \/ \E g \in autos : AutoHSet(g)

Spec == Init /\ [][Next]_vars

\* The ledger under concurrent debits: the crash engine's betting phase
\* together with PlaceBet calls on the instant engines.
NextLedger ==
    \/ StartRound
    \/ \E u \in Bettors, in \in BetInputs : PlaceBet(u, in[1], in[2])
    \/ BetReceive
    \/ BetDebit
    \/ BetRollback
    \/ BetPersist
    \/ \E k \in InstantKinds, u \in Bettors : InstantPlaceBet(k, u, 1)
    \/ \E id \in 1..MaxInstant : InstantDebit(id)
    \/ \E id \in 1..MaxInstant : InstantRollback(id)
    \/ \E id \in 1..MaxInstant : InstantSettle(id)

SpecLedger == Init /\ [][NextLedger]_vars

\* One round that lasts two update ticks (1.06, 1.13) and crashes at 1.20,
\* with bets that carry auto-cashout targets; no manual cashouts.
AutoSeeds == {<<5, 3>>}
AutoBetInputs == {<<1, 106>>, <<1, 120>>, <<1, 126>>}

NextAuto ==
    \/ \E sd \in AutoSeeds : nonce = 0 /\ StartRoundWith(sd[1], sd[2])
    \/ BettingTimer
    \/ \E u \in Bettors, in \in AutoBetInputs : PlaceBet(u, in[1], in[2])
    \/ BetReceive
    \/ BetDebit
    \/ BetPersist
    \/ TickAdvance
    \/ TickCrash
    \/ RoundEnd
    \/ TickUpdate
    \/ PauseDone
    \/ \E g \in autos : AutoCheck(g)
    \/ \E g \in autos : AutoHGet(g)
    \/ \E g \in autos : AutoCredit(g)
    \/ \E g \in autos : AutoHSet(g)

SpecAuto == Init /\ [][NextAuto]_vars

\* The crash engine with a store whose balance increments may report errors.
NextFaults ==
    \/ \E sd \in AutoSeeds : nonce = 0 /\ StartRoundWith(sd[1], sd[2])
    \/ BettingTimer
    \/ \E u \in Bettors, in \in {i \in BetInputs : i[2] = 0} :
          PlaceBet(u, in[1], in[2])
    \/ BetReceive
    \/ BetDebit
    \/ \E applied \in BOOLEAN : BetDebitError(applied)
    \/ BetRollback
    \/ BetPersist
    \/ \E u \in Bettors, b \in 1..MaxBetReqs :
          CashoutCall(MaxRetryCashoutReqs, u, b)
    \/ CashoutReceive
    \/ CashoutHGet
    \/ CashoutCredit
    \/ \E applied \in BOOLEAN : CashoutCreditError(applied)
    \/ CashoutHSet
    \/ TickAdvance
    \/ TickCrash
    \/ RoundEnd
    \/ TickUpdate
    \/ PauseDone

SpecFaults == Init /\ [][NextFaults]_vars

\* The Mines engine: sessions created by PlaceBet, then concurrent click and
\* cashout calls on them.
NextMines ==
    \/ \E u \in Bettors : InstantPlaceBet("mines", u, 1)
    \/ \E id \in 1..MaxInstant : InstantDebit(id)
    \/ \E id \in 1..MaxInstant : InstantSettle(id)
    \/ \E u \in Bettors, g \in 1..MaxInstant, t \in ClickTiles :
          MinesClick(u, g, t)
    \/ \E id \in 1..MaxMinesCalls : MinesClickSet(id)
    \/ \E u \in Bettors, g \in 1..MaxInstant : MinesCashout(u, g)
    \/ \E id \in 1..MaxMinesCalls : MinesCashoutCredit(id)
    \/ \E id \in 1..MaxMinesCalls : MinesCashoutSet(id)

SpecMines == Init /\ [][NextMines]_vars

\* Direct calls of calculatePayout: one bet amount and mine count, the
\* payout asked for 0, 1, 2, ... revealed tiles in turn. The inputs are the
\* amounts 1..4 with every mine count, and the maximum amount with the mine
\* counts whose payouts in cents stay below 2^31.
PayoutInputs ==
    {<<a, m>> : a \in 1..4, m \in MINES_MIN_COUNT..MINES_MAX_COUNT}
    \cup {<<MAX_BET_AMOUNT, m>> : m \in {1, 2, 23, 24}}

InitPayout ==
    /\ InitServers
    /\ fn \in {[name |-> "calculatePayout", amount |-> i[1],
                mine_count |-> i[2], payouts |-> <<>>] : i \in PayoutInputs}

\* payouts[r + 1] is the value returned for revealedCount = r.
CalculatePayoutCall ==
    /\ fn.name = "calculatePayout"
    /\ Len(fn.payouts) <= MINES_GRID_SIZE - fn.mine_count
    /\ \E p \in calculatePayoutFloat(fn.amount, fn.mine_count,
                                     Len(fn.payouts)) :
          fn' = [fn EXCEPT !.payouts = Append(@, p)]
    /\ UNCHANGED <<pc, nonce, round, rwlock, elapsed, activeBets, eng, stopped,
                   balance, betTable, roundStore, sent, betReqs, betChannel,
                   cashReqs, cashoutChannel, autos, credits, inst, mines,
                   minesCalls, hub, ws>>

NextPayout == CalculatePayoutCall

SpecPayout == InitPayout /\ [][NextPayout]_vars

\* Direct calls of PlinkoEngine.generatePath and getMultiplier for an accepted
\* drop: rows in {8, 12, 16}, any risk; every step's digest may be even (left)
\* or odd (right). Of the path only its length and the position are kept.
PlinkoRisks == {"low", "medium", "high"}
PlinkoRows == {8, 12, 16}

InitPlinko ==
    /\ InitServers
    /\ fn \in {[name |-> "generatePath", risk |-> k, rows |-> n, i |-> 0,
                position |-> 0, multiplier |-> 0] :
                   k \in PlinkoRisks, n \in PlinkoRows}

\* One iteration of generatePath's loop.
GeneratePathStep ==
    /\ fn.name = "generatePath"
    /\ fn.i < fn.rows
    /\ \E direction \in {0, 1} :
          fn' = [fn EXCEPT !.i = @ + 1,
                           !.position = IF direction = 1 THEN @ + 1 ELSE @]
    /\ UNCHANGED <<pc, nonce, round, rwlock, elapsed, activeBets, eng, stopped,
                   balance, betTable, roundStore, sent, betReqs, betChannel,
                   cashReqs, cashoutChannel, autos, credits, inst, mines,
                   minesCalls, hub, ws>>

\* generatePath returns position as the landing slot; getMultiplier(risk,
\* landingSlot, rows) is evaluated.
GetMultiplierCall ==
    /\ fn.name = "generatePath"
    /\ fn.i = fn.rows
    /\ fn' = [fn EXCEPT !.name = "getMultiplier",
                        !.multiplier = getMultiplier(fn.risk, fn.position,
                                                     fn.rows)]
    /\ UNCHANGED <<pc, nonce, round, rwlock, elapsed, activeBets, eng, stopped,
                   balance, betTable, roundStore, sent, betReqs, betChannel,
                   cashReqs, cashoutChannel, autos, credits, inst, mines,
                   minesCalls, hub, ws>>

NextPlinko ==
    \/ GeneratePathStep
    \/ GetMultiplierCall

SpecPlinko == InitPlinko /\ [][NextPlinko]_vars

\* Plinko and Dice with a store whose payout credit may report an error: two
\* concurrent PlaceBet calls.
NextInstantFaults ==
    \/ \E k \in {"plinko", "dice"}, u \in Users :
          InstantCall(MaxInstantFaults, k, u, 1)
    \/ \E id \in 1..MaxInstantFaults : InstantDebit(id)
    \/ \E id \in 1..MaxInstantFaults : InstantRollback(id)
    \/ \E id \in 1..MaxInstantFaults : InstantSettle(id)
    \/ \E id \in 1..MaxInstantFaults, applied \in BOOLEAN :
          InstantCreditError(id, applied)

SpecInstantFaults == Init /\ [][NextInstantFaults]_vars

\* The Dice engine: one roll request of any user, target and direction.
NextDice ==
    \/ \E u \in Users, a \in {0, 1}, t \in DiceTargets, o \in BOOLEAN :
          DicePlaceBet(u, a, t, o)
    \/ \E id \in 1..MaxInstant : InstantDebit(id)
    \/ \E id \in 1..MaxInstant : DiceSettle(id)

SpecDice == Init /\ [][NextDice]_vars

\* Direct calls of HashAndMapToMultiplier: one digest prefix, a build, and
\* the function called repeatedly on it. The prefixes are the ends of the
\* range, both sides of r = 0.01, the middle, and those of the engine's seeds.
PrefixInputs ==
    {0, 1, HashBits \div 100, HashBits \div 100 + 1, HashBits \div 2,
     HashBits - 200, HashBits - 2, HashBits - 1}
    \cup {HmacPrefix(s, c, n) : s \in Seeds, c \in Seeds, n \in 1..MaxRounds}

InitCrashPoint ==
    /\ InitServers
    /\ fn \in {[name |-> "HashAndMapToMultiplier", prefix |-> u,
                intOfInf |-> k, results |-> <<>>] :
                   u \in PrefixInputs, k \in IntOfInfOutcomes}

HashAndMapCall ==
    /\ fn.name = "HashAndMapToMultiplier"
    /\ Len(fn.results) < MaxRepeatCalls
    /\ fn' = [fn EXCEPT !.results =
                 Append(@, MapToMultiplier(fn.prefix, fn.intOfInf))]
    /\ UNCHANGED <<pc, nonce, round, rwlock, elapsed, activeBets, eng, stopped,
                   balance, betTable, roundStore, sent, betReqs, betChannel,
                   cashReqs, cashoutChannel, autos, credits, inst, mines,
                   minesCalls, hub, ws>>

NextCrashPoint == HashAndMapCall

SpecCrashPoint == InitCrashPoint /\ [][NextCrashPoint]_vars

\* Direct calls of VerifyRound. prefix is the digest of the round's
\* (server_seed, client_seed, nonce); verifyPrefix the digest of the triple
\* handed to VerifyRound, the same when the triple is unchanged and another
\* one when any of the three was changed; claimed is the round's multiplier
\* plus an offset, in thousandths.
VerifyPrefixes ==
    {0, 1, HashBits \div 100 + 1, HashBits \div 2, HashBits - 2}
ClaimedOffsets == {-20, -11, -10, -5, 0, 5, 10, 11, 20}

InitVerify ==
    /\ InitServers
    /\ fn \in {[name |-> "VerifyRound", prefix |-> u, verifyPrefix |-> v,
                intOfInf |-> k, returned |-> FALSE, result |-> FALSE,
                claimed |-> MapToMultiplier(u, k) * 10 + d] :
                   u \in VerifyPrefixes, v \in VerifyPrefixes,
                   k \in IntOfInfOutcomes, d \in ClaimedOffsets}

VerifyRoundCall ==
    /\ fn.name = "VerifyRound"
    /\ ~fn.returned
    /\ \E valid \in VerifyRound(fn.verifyPrefix, fn.intOfInf, fn.claimed) :
          fn' = [fn EXCEPT !.returned = TRUE, !.result = valid]
    /\ UNCHANGED <<pc, nonce, round, rwlock, elapsed, activeBets, eng, stopped,
                   balance, betTable, roundStore, sent, betReqs, betChannel,
                   cashReqs, cashoutChannel, autos, credits, inst, mines,
                   minesCalls, hub, ws>>

NextVerify == VerifyRoundCall

SpecVerify == InitVerify /\ [][NextVerify]_vars

\* The hub's broadcast intake: callers of Broadcast, each message numbered
\* by its call, with the coordinator started at any time or never.
NextHub ==
    \/ HubBroadcast(hub.calls + 1)
    \/ HubStart
    \/ HubRun

SpecHub == Init /\ [][NextHub]_vars

\* The hub with WebSocket sessions: connections come and go, the handlers
\* answer pings, messages are broadcast and fanned out to the sessions.
NextSessions ==
    \/ hub.calls < MaxSessionBroadcasts /\ HubBroadcast(hub.calls + 1)
    \/ HubStart
    \/ HubRun
    \/ \E c \in Sessions : WsRegister(c)
    \/ \E c \in Sessions : WsPing(c)
    \/ \E c \in Sessions : WsWriteDone(c)
    \/ \E c \in Sessions : WsReadError(c)
    \/ \E s \in ws.sends : SendLock(s)
    \/ \E s \in ws.sends, ok \in BOOLEAN : SendWrite(s, ok)

SpecSessions == Init /\ [][NextSessions]_vars

\* The round engine without a stop signal, with bet and cashout requests
\* arriving at any time. The engine goroutine keeps running, so each of its
\* steps that stays enabled is taken (WF); the betting timer and the ticker
\* compete with the request channels in a select that picks at random among
\* the ready cases, so a case that is ready again and again is taken (SF).
NextLive ==
    \/ StartRound
    \/ BettingTimer
    \/ \E u \in Bettors, in \in {i \in BetInputs : i[2] = 0} :
          PlaceBet(u, in[1], in[2])
    \/ BetReceive
    \/ BetDebit
    \/ BetPersist
    \/ \E u \in Bettors, b \in 1..MaxBetReqs : Cashout(u, b)
    \/ CashoutReceive
    \/ CashoutHGet
    \/ CashoutCredit
    \/ CashoutHSet
    \/ TickAdvance
    \/ TickCrash
    \/ RoundEnd
    \/ TickUpdate
    \/ PauseDone

SpecLive ==
    /\ Init
    /\ [][NextLive]_vars
    /\ SF_vars(BettingTimer)
    /\ SF_vars(TickAdvance)
    /\ WF_vars(StartRound)
    /\ WF_vars(BetDebit)
    /\ WF_vars(BetPersist)
    /\ WF_vars(CashoutHGet)
    /\ WF_vars(CashoutCredit)
    /\ WF_vars(CashoutHSet)
    /\ WF_vars(TickCrash)
    /\ WF_vars(TickUpdate)
    /\ WF_vars(RoundEnd)
    /\ WF_vars(PauseDone)

\* The round engine with a stop signal: Stop is called at any moment, once;
\* requests keep arriving. gameLoop's check of the stop channel and the call
\* of runRound are separate steps here. The engine goroutine keeps running
\* (WF on its steps); a closed stopChan is a ready case in every select the
\* engine reaches, and select picks at random among the ready cases, so the
\* stop case is taken when it is ready again and again (SF).
NextStop ==
    \/ GameLoopDefault
    \/ RunRound
    \/ BettingTimer
    \/ \E u \in Bettors, in \in {i \in BetInputs : i[2] = 0} :
          PlaceBet(u, in[1], in[2])
    \/ BetReceive
    \/ BetDebit
    \/ BetPersist
    \/ \E u \in Bettors, b \in 1..MaxBetReqs : Cashout(u, b)
    \/ CashoutReceive
    \/ CashoutHGet
    \/ CashoutCredit
    \/ CashoutHSet
    \/ TickAdvance
    \/ TickCrash
    \/ RoundEnd
    \/ TickUpdate
    \/ PauseDone
    \/ Stop
    \/ EngineStop

SpecStop ==
    /\ Init
    /\ [][NextStop]_vars
    /\ SF_vars(EngineStop)
    /\ WF_vars(RunRound)
    /\ WF_vars(BetDebit)
    /\ WF_vars(BetPersist)
    /\ WF_vars(CashoutHGet)
    /\ WF_vars(CashoutCredit)
    /\ WF_vars(CashoutHSet)
    /\ WF_vars(TickCrash)
    /\ WF_vars(TickUpdate)
    /\ WF_vars(RoundEnd)
    /\ WF_vars(PauseDone)

\* The round engine with PlaceBet callers that may give up waiting: the
\* caller's 5 s timer can fire whenever no reply is on its response channel,
\* while the request is queued (in any phase) or being processed.
NextTimeout ==
    \/ StartRound
    \/ BettingTimer
    \/ \E u \in Bettors, in \in {i \in BetInputs : i[2] = 0} :
          PlaceBet(u, in[1], in[2])
    \/ \E id \in 1..MaxBetReqs : BetCallerTimeout(id)
    \/ BetReceive
    \/ BetDebit
    \/ BetPersist
    \/ TickAdvance
    \/ TickCrash
    \/ RoundEnd
    \/ TickUpdate
    \/ PauseDone

SpecTimeout == Init /\ [][NextTimeout]_vars

\* ================================================================ claims
InBounds(amount) == amount >= MIN_BET_AMOUNT /\ amount <= MAX_BET_AMOUNT

\* C1: a bet is credited at most once over all manual and auto cashouts.
\* Stated as: no credit is ever the second (or later) credit of its bet.
C1_AtMostOneCredit == \A c \in credits : c.n = 1

\* C2: every stored balance is >= 0 in every reachable state, the states
\* between a debit and its compensation included.
C2_BalanceNonNegative == \A u \in Users : balance[u] >= 0

\* C3: the seed revealed by a round's crash event hashes to the commitment of
\* the same round's round_start event, and the crash event's multiplier is
\* HashAndMapToMultiplier of the round's server seed, client seed and nonce.
C3_CrashRevealsCommittedSeed ==
    \A e \in sent :
        e.type = "crash" =>
            /\ \E st \in sent : st.type = "round_start" /\ st.round_id = e.round_id
            /\ \A st \in sent :
                  (st.type = "round_start" /\ st.round_id = e.round_id)
                      => HashCommitment(e.server_seed) = st.commitment
            /\ e.round_id \in DOMAIN roundStore
            /\ e.multiplier =
                  HashAndMapToMultiplier(e.server_seed,
                                         roundStore[e.round_id].client_seed,
                                         roundStore[e.round_id].nonce)

C3_Witness == \E e \in sent : e.type = "crash" /\ e.multiplier > MIN_MULTIPLIER

\* C4: while the round is BETTING or RUNNING, no event of the round, no
\* stored round record and no JSON form of the round snapshot carries the
\* round's server seed or crash multiplier; the crash event exists only once
\* the status is CRASHED.
Hidden(doc) ==
    /\ "server_seed" \notin DOMAIN doc
    /\ "serverSeed" \notin DOMAIN doc
    /\ "crash_multiplier" \notin DOMAIN doc
    /\ "crash" \notin DOMAIN doc

C4_SeedHiddenUntilCrash ==
    round.status \in {"BETTING", "RUNNING"} =>
        /\ \A e \in sent :
              ("round_id" \in DOMAIN e /\ e.round_id = round.id)
                  => (Hidden(e) /\ e.type # "crash")
        /\ round.id \in DOMAIN roundStore /\ Hidden(roundStore[round.id])
        /\ Hidden(ToJSON(GetCurrentRound))

C4_Witness ==
    /\ round.status = "RUNNING"
    /\ \E e \in sent : e.type = "update" /\ e.round_id = round.id

\* C5: within a round the status moves only BETTING -> RUNNING -> CRASHED;
\* BETTING is seen again only on a new round with a greater round id, created
\* after the previous round CRASHED.
C5_StatusForward ==
    [][ /\ round'.status = "NONE" => round.status = "NONE"
        /\ (round.status = "NONE" /\ round' # round)
              => round'.status = "BETTING"
        /\ (round.status # "NONE" /\ round' # round) =>
              IF round'.id = round.id
              THEN <<round.status, round'.status>> \in
                      {<<"BETTING", "BETTING">>, <<"BETTING", "RUNNING">>,
                       <<"RUNNING", "RUNNING">>, <<"RUNNING", "CRASHED">>,
                       <<"CRASHED", "CRASHED">>}
              ELSE /\ round.status = "CRASHED"
                   /\ round'.status = "BETTING"
                   /\ round'.id > round.id ]_vars

C5_Witness == round.status = "CRASHED" /\ round.id = 2

\* C6: whenever the round lock is not write-held, the round a reader copies
\* has current_multiplier <= crash_multiplier, with equality once CRASHED.
C6_MultiplierBounded ==
    (RLockFree /\ GetCurrentRound # NoRound) =>
        /\ GetCurrentRound.current <= GetCurrentRound.crash
        /\ GetCurrentRound.status = "CRASHED"
              => GetCurrentRound.current = GetCurrentRound.crash

C6_Witness ==
    /\ RLockFree
    /\ round.status = "CRASHED"
    /\ calculateMultiplier(elapsed) > round.crash

\* C7: a bet is debited and first written to a bet table only while that
\* table's round is the current round and BETTING, with an amount in
\* [MIN_BET_AMOUNT, MAX_BET_AMOUNT].
C7_BetsOnlyWhileBetting ==
    [][ /\ pc \in {"bet_debit", "bet_persist"} =>
              /\ round.status = "BETTING"
              /\ round.id = eng.rid
              /\ InBounds(betReqs[eng.req].amount)
        /\ \A r \in RoundIds :
              \A b \in (DOMAIN betTable'[r]) \ (DOMAIN betTable[r]) :
                  betReqs[b].reply = None =>
                      /\ round.status = "BETTING" /\ round.id = r
                      /\ round' = round
                      /\ pc = "bet_persist"
                      /\ InBounds(betTable'[r][b].amount) ]_vars

C7_Witness ==
    /\ round.status = "RUNNING"
    /\ \E b \in DOMAIN betTable[round.id] : ~betTable[round.id][b].cashed_out

\* C8: a bet with a valid amount that was queued while the round was RUNNING
\* is answered "Betting is closed" and not debited.
C8_BetWhileRunningRejected ==
    \A id \in DOMAIN betReqs :
        (/\ betReqs[id].whileRunning
         /\ InBounds(betReqs[id].amount)
         /\ betReqs[id].reply # None
         /\ betReqs[id].reply.message # "Bet queue full")
            => (/\ ~betReqs[id].reply.success
                /\ betReqs[id].reply.message = "Betting is closed")

\* C9: when the engine takes a bet with an amount in bounds whose user's
\* balance is below the amount, it replies success=false "Insufficient
\* balance" and changes neither the balance, nor a bet table, nor the events;
\* such a request never has an ActiveBet.
C9_InsufficientBalanceRejected ==
    [][ /\ \A id \in DOMAIN betReqs :
              (/\ pc = "betting"
               /\ betChannel # <<>>
               /\ Head(betChannel) = id
               /\ betChannel' = Tail(betChannel)
               /\ InBounds(betReqs[id].amount)
               /\ round.status = "BETTING"
               /\ balance[betReqs[id].user] < betReqs[id].amount * 100)
                  => /\ betReqs'[id].reply.success = FALSE
                     /\ betReqs'[id].reply.message = "Insufficient balance"
                     /\ balance' = balance
                     /\ betTable' = betTable
                     /\ sent' = sent
                     /\ pc' = "betting"
        /\ \A id \in DOMAIN betReqs :
              betReqs[id].reply.message = "Insufficient balance"
                  => \A r \in RoundIds : id \notin DOMAIN betTable'[r] ]_vars

C9_Witness ==
    \E id \in DOMAIN betReqs :
        /\ betReqs[id].reply.message = "Insufficient balance"
        /\ balance[betReqs[id].user] = betReqs[id].reply.balance

\* C10: no cashout credit is applied unless the round the cashout was taken
\* for is still the current round and still RUNNING.
C10_NoCreditAfterCrash == \A c \in credits : c.live


\* C11: every cashout credit adds exactly stake * m to the credited balance,
\* where m is a multiplier snapshotted while RUNNING with 1.00 <= m <= the
\* round's crash multiplier; each successful reply and each cashout event
\* carries the m and payout of a credit; with one bet and one cashout of the
\* same user the balance is initial - stake + stake * m.
SuccessfulBets(u) ==
    {id \in DOMAIN betReqs : betReqs[id].user = u /\ betReqs[id].reply.success}

C11_CreditsState ==
    /\ \A c \in credits :
          /\ c.payout = betReqs[c.bet].amount * c.multiplier
          /\ c.multiplier >= MIN_MULTIPLIER
          /\ (round # NoRound /\ round.id = c.rid) => c.multiplier <= round.crash
          /\ \A e \in sent :
                (e.type = "crash" /\ e.round_id = c.rid)
                    => c.multiplier <= e.multiplier
    /\ \A id \in DOMAIN cashReqs :
          cashReqs[id].reply.success =>
              \E c \in credits :
                  /\ c.bet = cashReqs[id].bet /\ c.user = cashReqs[id].user
                  /\ cashReqs[id].reply.multiplier = c.multiplier
                  /\ cashReqs[id].reply.payout = c.payout
    /\ \A e \in sent :
          e.type = "cashout" =>
              \E c \in credits :
                  /\ c.bet = e.bet_id /\ c.user = e.user_id
                  /\ e.multiplier = c.multiplier /\ e.payout = c.payout
    /\ \A u \in Users : \A b \in SuccessfulBets(u) : \A c \in credits :
          (/\ SuccessfulBets(u) = {b}
           /\ pc \notin {"bet_persist", "bet_rollback"}
           /\ {x \in credits : x.user = u} = {c}
           /\ c.bet = b)
              => balance[u] = InitialBalance - betReqs[b].amount * 100
                                 + betReqs[b].amount * c.multiplier

C11_PayoutIsStakeTimesMultiplier ==
    [][ /\ C11_CreditsState'
        /\ \A c \in credits' \ credits :
              balance' = [balance EXCEPT ![c.user] =
                              @ + betReqs[c.bet].amount * c.multiplier]
        /\ (pc = "running" /\ pc' = "co_hget") =>
              /\ RLockFree /\ round.status = "RUNNING"
              /\ eng'.currentMult = round.current
        /\ \A g \in autos' \ autos :
              g.pc = "hget" =>
                  /\ RLockFree /\ round.status = "RUNNING"
                  /\ g.currentMult = round.current ]_vars

C11_Witness ==
    \E id \in DOMAIN cashReqs : \E c \in credits :
        /\ cashReqs[id].reply.success
        /\ cashReqs[id].reply.multiplier > MIN_MULTIPLIER
        /\ c.bet = cashReqs[id].bet /\ c.user = cashReqs[id].user
        /\ SuccessfulBets(c.user) = {c.bet}
        /\ {x \in credits : x.user = c.user} = {c}


\* C12: on the first tick whose multiplier is at or above the auto_cashout of
\* a bet with 0 < auto_cashout <= crash_multiplier, the engine starts the
\* cashout of that bet (the claim's credit before the round ends needs at least
\* this).
C12_AutoCashoutOnFirstTick ==
    [][ (pc = "tick" /\ pc' # "tick") =>
            \A b \in DOMAIN activeBets :
                (/\ activeBets[b].auto_cashout > 0
                 /\ activeBets[b].auto_cashout <= round.crash
                 /\ calculateMultiplier(elapsed) >= activeBets[b].auto_cashout
                 /\ calculateMultiplier(elapsed - 1) < activeBets[b].auto_cashout)
                    => \E g \in autos' :
                          g.bet = b /\ g.spawn = <<round.id, elapsed>> ]_vars


\* C13: an auto-cashout started by the scan of a tick pays amount times the
\* multiplier of that tick: every auto-cashout goroutine that has credited
\* its user credited amount * calculateMultiplier(elapsed at its scan).
C13_AutoPaysScanMultiplier ==
    \A g \in autos :
        g.pc = "hset" =>
            \E c \in credits :
                /\ c.auto /\ c.bet = g.bet /\ c.multiplier = g.currentMult
                /\ c.payout = g.entry.amount * calculateMultiplier(g.spawn[2])


\* C14: a bet that was not cashed out before its round crashed is never
\* credited (no first credit of a bet is applied once its round is no longer
\* RUNNING), and the crash branch and round-end processing change no balance.
C14_LosingBetsNeverCredited ==
    [][ /\ \A c \in credits' \ credits :
              (~ \E c0 \in credits : c0.bet = c.bet /\ c0.rid = c.rid) => c.live
        /\ (\/ pc = "tick" /\ pc' = "round_end"
            \/ pc = "round_end" /\ pc' = "pause")
              => balance' = balance ]_vars


\* C15: when the debit increment of a bet returned a store error, the handler
\* replies success=false "Transaction failed", records no ActiveBet for the
\* request, and leaves the user's balance equal to the balance it read before
\* the debit.
C15_DebitErrorRestoresBalance ==
    [][ (pc = "bet_rollback" /\ "err" \in DOMAIN eng /\ pc' # pc) =>
            /\ betReqs'[eng.req].reply.success = FALSE
            /\ betReqs'[eng.req].reply.message = "Transaction failed"
            /\ \A r \in RoundIds : eng.req \notin DOMAIN betTable'[r]
            /\ balance'[betReqs[eng.req].user] = eng.balance ]_vars


C17_ClickHonoursMinePositions ==
    [][ \A id \in DOMAIN minesCalls :
            (/\ minesCalls[id].kind = "click"
             /\ minesCalls[id].pc = "set"
             /\ minesCalls'[id].pc = "done")
                => LET c == minesCalls[id]
                       derived == Elements(inst[c.game].minePositions)
                   IN  IF c.tile \in derived
                       THEN /\ mines'[c.game].status = "BUSTED"
                            /\ mines'[c.game].current_payout = 0
                            /\ minesCalls'[id].reply.is_mine
                       ELSE /\ mines'[c.game].status = "ACTIVE"
                            /\ c.tile \in Elements(mines'[c.game].revealed_tiles)
                            /\ ~minesCalls'[id].reply.is_mine ]_vars


C19_TerminalSessionImmutable ==
    [][ \A g \in DOMAIN mines :
            mines[g].status \in {"CASHED_OUT", "BUSTED"} =>
                /\ mines'[g] = mines[g]
                /\ \A id \in DOMAIN minesCalls :
                      (minesCalls[id].game = g /\ minesCalls[id].pc = "credit")
                          => minesCalls'[id].pc = "credit" ]_vars


\* C20: the mine positions generateMinePositions returned for a session are
\* pairwise distinct, all in [0, 25), and exactly mine_count many, for every
\* digest sequence the derivation saw within its 100 iterations.
C20_MinePositionsComplete ==
    \A id \in DOMAIN inst :
        (inst[id].kind = "mines" /\ inst[id].pc = "done"
            /\ inst[id].reply.success) =>
            LET positions == inst[id].minePositions IN
            /\ Len(positions) = inst[id].mine_count
            /\ Cardinality(Elements(positions)) = Len(positions)
            /\ \A k \in 1..Len(positions) :
                  positions[k] >= 0 /\ positions[k] < MINES_GRID_SIZE

\* C21: for every bet amount and mine count, calculatePayout with no tile
\* revealed returns the bet amount, and each further revealed safe tile, up
\* to all 25 - mine_count of them, returns a strictly larger payout (so the
\* payout is non-decreasing in the number of revealed tiles).
C21_PayoutIncreasing ==
    fn.name = "calculatePayout" =>
        /\ Len(fn.payouts) >= 1 => fn.payouts[1] = fn.amount * 100
        /\ \A k \in 1..(Len(fn.payouts) - 1) :
              fn.payouts[k] < fn.payouts[k + 1]

C21_Witness ==
    /\ fn.name = "calculatePayout"
    /\ fn.amount = 1
    /\ fn.mine_count = 12
    /\ Len(fn.payouts) = MINES_GRID_SIZE - 12 + 1

\* C22: for every accepted Plinko drop (rows 8, 12 or 16, risk low, medium or
\* high) the landing slot lies in [0, rows] and the table the multiplier is
\* looked up in has exactly rows + 1 entries, one per landing slot.
C22_TableHasRowsPlusOneEntries ==
    fn.name = "getMultiplier" =>
        /\ fn.position \in 0..fn.rows
        /\ Len(plinkoMultipliers(fn.risk)) = fn.rows + 1

\* Net effect on the balance, in cents, that the replies of a user's finished
\* instant calls account for: a successful call debits its amount and credits
\* its payout; a call answered success=false leaves nothing behind.
RECURSIVE RepliedEffect(_, _)
RepliedEffect(u, ids) ==
    IF ids = {} THEN 0
    ELSE LET id == CHOOSE x \in ids : TRUE
             c == inst[id]
         IN  (IF c.user = u /\ c.reply.success
              THEN c.reply.payout - c.amount * 100 ELSE 0)
             + RepliedEffect(u, ids \ {id})

\* C23: once every Plinko drop and Dice roll has returned, a call that
\* returned success=false has left the balance as it was before the call,
\* also when its debit had been applied: each balance is the initial balance
\* plus the debits and payouts of the successful calls only.
C23_FailedInstantBetRestoresBalance ==
    (\A id \in DOMAIN inst : inst[id].pc = "done") =>
        \A u \in Users :
            balance[u] = InitialBalance + RepliedEffect(u, DOMAIN inst)

\* What one Dice call has done to its user's balance so far, in cents, if
\* the claim holds: nothing before its debit and nothing if it was rejected;
\* -amount once debited; -amount + amount * multiplier once settled as a win.
DiceEffect(c) ==
    IF c.pc \in {"settle", "rollback"} THEN -(c.amount * 100)
    ELSE IF c.pc = "done" /\ c.reply.success
    THEN (IF c.reply.win THEN c.amount * c.reply.multiplier ELSE 0)
         - c.amount * 100
    ELSE 0

RECURSIVE DiceEffects(_, _)
DiceEffects(u, ids) ==
    IF ids = {} THEN 0
    ELSE LET id == CHOOSE x \in ids : TRUE
         IN  (IF inst[id].user = u THEN DiceEffect(inst[id]) ELSE 0)
             + DiceEffects(u, ids \ {id})

\* C24: an accepted Dice roll wins iff (is_over and roll > target) or (not
\* is_over and roll < target); a lost roll changes the balance by exactly
\* -amount and a won roll by -amount + amount * multiplier; a request with
\* is_over and target >= 99, or not is_over and target <= 1, is rejected and
\* changes no balance.
C24_DiceWinRuleAndBalance ==
    /\ \A id \in DOMAIN inst :
        LET c == inst[id]
            r == c.reply
        IN  (c.kind = "dice" /\ c.pc = "done") =>
            /\ r.success =>
                (r.win <=> \/ c.is_over /\ r.roll_result > c.target
                           \/ ~c.is_over /\ r.roll_result < c.target)
            /\ ((c.is_over /\ c.target >= 9900)
                    \/ (~c.is_over /\ c.target <= 100)) => ~r.success
    /\ \A u \in Users :
          balance[u] = InitialBalance + DiceEffects(u, DOMAIN inst)

\* An accepted roll that came out equal to its target: lost, stake debited.
C24_Witness ==
    \E id \in DOMAIN inst :
        LET c == inst[id]
        IN  /\ c.kind = "dice" /\ c.pc = "done" /\ c.reply.success
            /\ c.reply.roll_result = c.target
            /\ ~c.reply.win
            /\ balance[c.user] = InitialBalance - c.amount * 100

\* C25: for every input, HashAndMapToMultiplier returns the same value on
\* every call, the value lies in [1.00, 1000000.00], and it is exactly 1.00
\* whenever the derived r is below 0.01.
C25_CrashPointInRange ==
    fn.name = "HashAndMapToMultiplier" =>
        \A k \in 1..Len(fn.results) :
            /\ fn.results[k] = fn.results[1]
            /\ fn.results[k] >= MIN_MULTIPLIER
            /\ fn.results[k] <= MAX_MULTIPLIER
            /\ fn.prefix * 100 < HashBits => fn.results[k] = MIN_MULTIPLIER

\* A digest just below the top of the range, called repeatedly: the raw
\* crash value exceeds the maximum and is clamped to it.
C25_Witness ==
    /\ fn.name = "HashAndMapToMultiplier"
    /\ fn.prefix = HashBits - 2
    /\ Len(fn.results) = MaxRepeatCalls
    /\ fn.results[1] = MAX_MULTIPLIER

\* The multiplier of the round, claimed unchanged, in thousandths.
RoundMultiplier == MapToMultiplier(fn.prefix, fn.intOfInf) * 10

\* C26 as stated: VerifyRound accepts the round's own inputs and multiplier,
\* and rejects whenever any of server seed, client seed or nonce was changed,
\* or the claimed multiplier was changed by more than 0.01.
C26_VerifyRejectsAnyChange ==
    (fn.name = "VerifyRound" /\ fn.returned) =>
        /\ (fn.verifyPrefix = fn.prefix /\ fn.claimed = RoundMultiplier)
               => fn.result
        /\ (fn.verifyPrefix # fn.prefix /\ fn.claimed = RoundMultiplier)
               => ~fn.result
        /\ (fn.verifyPrefix = fn.prefix
                /\ (fn.claimed - RoundMultiplier > 10
                       \/ RoundMultiplier - fn.claimed > 10))
               => ~fn.result

\* C26 amended: VerifyRound accepts the round's own inputs and multiplier; it
\* rejects whenever the claimed multiplier differs by more than 0.01 from the
\* multiplier derived from the inputs it is given, so a changed claim is
\* rejected, and changed inputs are rejected when they derive a multiplier
\* more than 0.01 away from the claimed one.
C26_VerifyRejectsOtherMultiplier ==
    (fn.name = "VerifyRound" /\ fn.returned) =>
        LET derived == MapToMultiplier(fn.verifyPrefix, fn.intOfInf) * 10
        IN  /\ fn.claimed = derived => fn.result
            /\ (fn.claimed - derived > 10 \/ derived - fn.claimed > 10)
                   => ~fn.result

\* Changed inputs with the claim unchanged, rejected.
C26_Witness ==
    /\ fn.name = "VerifyRound"
    /\ fn.verifyPrefix # fn.prefix
    /\ fn.claimed = RoundMultiplier
    /\ fn.returned
    /\ ~fn.result

\* C27: Hub.Broadcast never blocks its caller, whether or not the hub
\* coordinator is running: a call can always complete, and it enqueues the
\* event when fewer than 100 events are pending and drops it, leaving the
\* queue unchanged, when 100 are pending.
C27_BroadcastNeverBlocks ==
    /\ [](hub.calls < MaxBroadcasts => ENABLED HubBroadcast(hub.calls + 1))
    /\ [][hub'.calls = hub.calls + 1 =>
            IF Len(hub.broadcast) < 100
            THEN hub'.broadcast = Append(hub.broadcast, hub'.calls)
            ELSE hub'.broadcast = hub.broadcast]_vars

\* An event dropped on a full queue while the coordinator is not running.
C27_Witness ==
    /\ hub.last = "dropped"
    /\ ~hub.running
    /\ Len(hub.broadcast) = HubBroadcastCap
    /\ hub.calls > HubBroadcastCap

\* C28: a PlaceBet call that finds the bet queue full returns success=false
\* with "Bet queue full" in the same step, without enqueuing the request and
\* without any balance change; likewise a Cashout call that finds the cashout
\* queue full returns "Cashout queue full". (The queues' capacity is QueueCap
\* in the model, 1000 in the code.)
C28_QueueFullRejected ==
    [][/\ \A id \in DOMAIN betReqs' \ DOMAIN betReqs :
            Len(betChannel) >= QueueCap =>
                /\ betReqs'[id].reply =
                       BetReply(FALSE, "Bet queue full", 0, 0)
                /\ betChannel' = betChannel
                /\ balance' = balance
       /\ \A id \in DOMAIN cashReqs' \ DOMAIN cashReqs :
            Len(cashoutChannel) >= QueueCap =>
                /\ cashReqs'[id].reply =
                       CashoutReply(FALSE, "Cashout queue full", 0, 0, 0)
                /\ cashoutChannel' = cashoutChannel
                /\ balance' = balance]_vars

\* Both a bet and a cashout request have been turned away by a full queue.
C28_Witness ==
    /\ \E id \in DOMAIN betReqs :
          /\ betReqs[id].reply.message = "Bet queue full"
          /\ id \notin {betChannel[k] : k \in 1..Len(betChannel)}
    /\ \E id \in DOMAIN cashReqs :
          /\ cashReqs[id].reply.message = "Cashout queue full"
          /\ id \notin {cashoutChannel[k] : k \in 1..Len(cashoutChannel)}

\* C29: without a stop signal and with the timers scheduled fairly, every
\* round eventually reaches CRASHED, and after every round a next round with
\* the nonce one greater eventually enters BETTING, whatever bet and cashout
\* requests are queued. (Rounds up to MaxRounds; the last has no successor.)
C29_RoundsKeepComing ==
    \A n \in 1..MaxRounds :
        /\ (round.status # "NONE" /\ round.nonce = n)
               ~> (round.status = "CRASHED" /\ round.nonce = n)
        /\ n < MaxRounds =>
               ((round.status # "NONE" /\ round.nonce = n)
                    ~> (round.status = "BETTING" /\ round.nonce = n + 1))

\* The second round is in its betting phase with a request waiting in the
\* bet queue, after a first round that took a bet and crashed.
C29_Witness ==
    /\ round.status = "BETTING"
    /\ round.nonce = 2
    /\ betChannel # <<>>
    /\ \E id \in DOMAIN betReqs : betReqs[id].reply.success

\* Executions of the cashout handler in progress: the engine's own, for a
\* request taken from the cashout queue, and those of other goroutines that
\* are past the phase check.
CashoutHandlersRunning ==
    (IF pc \in {"co_hget", "co_credit", "co_hset"} THEN 1 ELSE 0)
    + Cardinality({g \in autos : g.pc \in {"hget", "credit", "hset"}})

\* C30: auto-cashouts go through the cashout queue and the engine's single
\* loop like manual cashouts, so no two executions of the cashout handler,
\* manual or auto, are ever in progress at once and the bet table has a
\* single writer.
C30_CashoutHandlerSingleThreaded == CashoutHandlersRunning <= 1

\* Writes in progress on the connection of session c: send goroutines inside
\* WriteMessage, and the handler's own WriteMessage.
WritesInProgress(c) ==
    Cardinality({s \in ws.sends : s.client = c /\ s.pc = "write"})
        + (IF ws.handler[c] = "write" THEN 1 ELSE 0)

\* C31: once a write of a broadcast message to a session has failed and the
\* send task has returned, the session is no longer in the hub's client set
\* (so no later broadcast is dispatched to it).
C31_FailedWriteUnregisters ==
    \A c \in ws.failed : c \notin ws.clients

\* C32: at most one write to a given WebSocket connection is in progress at
\* any time, counting the hub's fan-out writes and the handler's own writes.
C32_OneWriteAtATime ==
    \A c \in Sessions : WritesInProgress(c) <= 1

\* C38: on each session the broadcast messages are written in the order in
\* which the hub dequeued them (messages are numbered in that order).
C38_WrittenInDequeueOrder ==
    \A c \in Sessions :
        \A i, j \in DOMAIN ws.written[c] :
            i < j => ws.written[c][i] < ws.written[c][j]

\* Round r has terminated: it crashed and its round-end processing is done.
Terminated(r) ==
    /\ round.status # "NONE"
    /\ \/ round.id > r
       \/ round.id = r /\ round.status = "CRASHED" /\ pc # "round_end"

\* C33: once round r has terminated, the store holds no bet table for r,
\* whatever cashouts were in flight when r crashed.
C33_NoBetTableAfterRoundEnd ==
    \A r \in RoundIds : Terminated(r) => betTable[r] = EmptyTable

\* Positions of the engine goroutine at which its next step is a store call
\* on a bet table: HSet of a new bet, HGet and HSet of a cashout, Del at the
\* round's end.
AtBetTableCall == pc \in {"bet_persist", "co_hget", "co_hset", "round_end"}

\* C34: the engine makes no bet-table read, write or delete while it holds
\* the round lock.
C34_NoStoreCallUnderRoundLock ==
    rwlock = "W" => ~AtBetTableCall

\* The stakes, in cents, of the bets of user u among ids that were placed.
RECURSIVE StakesOf(_, _)
StakesOf(u, ids) ==
    IF ids = {} THEN 0
    ELSE LET id == CHOOSE x \in ids : TRUE
         IN  (IF betReqs[id].user = u /\ betReqs[id].reply.success
              THEN betReqs[id].amount * 100 ELSE 0)
             + StakesOf(u, ids \ {id})

\* The cashout payouts credited to user u among the credits cs.
RECURSIVE PayoutsOf(_, _)
PayoutsOf(u, cs) ==
    IF cs = {} THEN 0
    ELSE LET c == CHOOSE x \in cs : TRUE
         IN  (IF c.user = u THEN c.payout ELSE 0) + PayoutsOf(u, cs \ {c})

\* Once the engine has exited, every placed bet is still debited: each
\* balance is the initial balance less the stakes plus the cashout payouts.
StakesStayDebited ==
    pc = "stopped" =>
        \A u \in Users :
            balance[u] = InitialBalance - StakesOf(u, DOMAIN betReqs)
                             + PayoutsOf(u, credits)

\* After Stop the engine loop eventually exits, and Stop refunds nothing.
StopEndsLoop ==
    /\ stopped ~> (pc = "stopped")
    /\ [](pc = "stopped" => stopped)
    /\ []StakesStayDebited

\* C35 as stated: after Stop is called once, the engine loop eventually
\* exits and no new round is created afterwards, whatever phase the round is
\* in; bets already debited in the abandoned round are not refunded.
C35_NoRoundAfterStop ==
    /\ StopEndsLoop
    /\ [][stopped => nonce' = nonce]_vars

\* C35, amended: after Stop is called once, the engine loop eventually exits
\* and no new round is created afterwards except by a call of runRound that
\* gameLoop had already decided on when Stop was called (at most one such
\* round); bets already debited in the abandoned round are not refunded.
C35_NoRoundAfterStopButPendingCall ==
    /\ StopEndsLoop
    /\ [][(stopped /\ nonce' # nonce) => pc = "run_round"]_vars
    /\ [][(stopped /\ pc # "run_round") => pc' # "run_round"]_vars

\* The engine has exited in the middle of a RUNNING round, abandoning a bet
\* that was placed and not cashed out: its stake is still debited.
C35_Witness ==
    /\ pc = "stopped"
    /\ round.status = "RUNNING"
    /\ credits = {}
    /\ \E id \in DOMAIN betReqs :
          /\ betReqs[id].reply.success
          /\ balance[betReqs[id].user] < InitialBalance

\* PlaceBet has returned success=false for request id: the engine's reply
\* was a rejection, or the caller's 5 s timer fired first ("Bet timeout").
BetReturnedFailure(id) ==
    \/ betReqs[id].timedOut
    \/ betReqs[id].reply # None /\ ~betReqs[id].reply.success

\* C36: once PlaceBet has returned success=false for a request, no later
\* step of the engine debits the user's balance for that request or records
\* an ActiveBet for it.
C36_FailedBetHasNoEffect ==
    [][ \A id \in DOMAIN betReqs :
            BetReturnedFailure(id) =>
                /\ ~(/\ pc = "bet_debit" /\ eng.req = id
                     /\ balance'[betReqs[id].user] < balance[betReqs[id].user])
                /\ \A r \in RoundIds :
                      id \in DOMAIN betTable'[r] => id \in DOMAIN betTable[r]
      ]_vars

\* C37: a cashout credits only the user who placed the bet: every credit of
\* a cashout goes to the user_id stored in the ActiveBet, and a request with
\* another user_id is never answered with success.
C37_CashoutCreditsBettorOnly ==
    /\ \A c \in credits : c.user = betReqs[c.bet].user
    /\ \A id \in DOMAIN cashReqs :
          cashReqs[id].reply.success =>
              cashReqs[id].user = betReqs[cashReqs[id].bet].user

\* C39: in a round whose crash_multiplier is 1.00 no cashout succeeds: no
\* cashout of a bet of that round is credited, to the bettor or anyone else.
C39_NoCashoutInInstantCrashRound ==
    (round.status # "NONE" /\ round.crash = MIN_MULTIPLIER) =>
        /\ \A c \in credits : c.rid # round.id
        /\ \A b \in DOMAIN betTable[round.id] :
              ~betTable[round.id][b].cashed_out

\* C40: in every stored Mines session the number of revealed tiles is at
\* most 25 - mine_count, the revealed tiles are pairwise distinct, and none
\* of them is one of the mine positions derived for the session at place_bet.
C40_RevealedTilesSafeAndDistinct ==
    \A g \in DOMAIN mines :
        LET revealed == mines[g].revealed_tiles IN
        /\ Len(revealed) <= MINES_GRID_SIZE - mines[g].mine_count
        /\ Cardinality(Elements(revealed)) = Len(revealed)
        /\ Elements(revealed) \cap Elements(inst[g].minePositions) = {}

====
